---- MODULE Spec2Model ----
(***************************************************************************)
(* A model of the task orchestration engine of ScienceBoard_CODA:          *)
(*   - Task.predict / Task._step   (sci/base/task.py)  : SpecPredict       *)
(*   - Task.eval / Task._stop_handler (sci/base/task.py): SpecEval         *)
(*   - Counter, TaskGroup, Tester.__call__ (sci/Tester.py): Spec           *)
(*   - Task.__call__ / Task.init / Task._init (sci/base/task.py): SpecRun  *)
(*   - TaskGroup.__init__ on any input (sci/Tester.py): SpecGroup          *)
(*   - the shard slice of Tester.__traverse (sci/Tester.py): SpecShard     *)
(*   - Tester.__traverse over a directory tree (sci/Tester.py): SpecDiscover *)
(*   - block, the bounded executor (sci/base/utils.py): SpecBlock          *)
(* Strings of the program are kept as strings; Python's False/True/None    *)
(* results of a code block are the strings "False", "True", "None".        *)
(***************************************************************************)
EXTENDS Integers, Sequences, FiniteSets, TLC

VARIABLES
    \* ---- Task.predict (task.py 340-358) ----
    steps,        \* self.steps, the step budget (mutated by the penalty)
    penalty,      \* self.penalty = <<threshold, reduction>>
    step_index,   \* local step_index
    liquid,       \* local liquid (the tally)
    ppc,          \* position of predict: "idle", "loop", "returned", "raised"
    ret,          \* the (kind, args) predict returned, NoSignal before
    steps0,       \* history: the budget at the start of predict
    consec,       \* history: liquid steps in a row ending at the last step
    penalized,    \* history: the last completed step applied the penalty
    emitted,      \* history: a code action raised PlannedTermination
    lastCodes,    \* history: the codes of the step in which a code block raised
    lastExec,     \* history: how many of them were invoked
    \* ---- Task.eval (task.py 363-389) ----
    evaluate,     \* self.evaluate, consumed by eval
    stop_type,    \* stop_type.__name__
    stop_args,    \* stop_args
    eval_index,   \* local eval_index (0-based, as in the source)
    epc,          \* "idle", "scan", "false", "true", "deferred", "done"
    verdict,      \* what the (wrapped) eval returned: "none", "true", "false"
    evaluate0,    \* history: self.evaluate when eval was called
    via,          \* history: who gave the verdict: "none", "generic", "specialized"
    satisfied,    \* the domain rules the specialised evaluator finds satisfied
    nevals,       \* history: how many times eval was called on this Task
    prev,         \* history: the list, signal and verdict of the call before
    \* ---- Tester, TaskGroup, Counter (Tester.py) ----
    task_info,    \* self.task_info: the discovered tasks, in discovery order
    ignore,       \* self.ignore (resumption-skip)
    optimize,     \* self.optimize (iterate the grouped plan)
    groups,       \* self.task_group.groups, as indices into task_info
    entered,      \* manager.entered, per manager of self.managers
    counter,      \* local_counter of _log_wrapper
    dpc,          \* position of Tester.__call__: "idle", "iter", "scope", "body",
                  \*   "leave", "done" (returned), "raised" (an error left the call)
    gpc,          \* position of the generator TaskGroup.__call__: "check",
                  \*   "group", "member"
    gi,           \* the generator's group (1-based)
    mi,           \* the generator's next member of that group (1-based)
    gopen,        \* the generator is inside "with group[0].task.manager"
    cur,          \* task_info of the loop body, an index into task_info
    result_exist, \* what the result-record scope yielded
    tres,         \* how the last invocation of a task ended: "true", "false", "raise"
    pos,          \* history: how many tasks the for loop has taken from the plan
    \* ---- Task.__call__, Task.init, Task._init (task.py 196-258, 391-423) ----
    initialize,   \* self.initialize, the init items of the task
    attempt,      \* how many iterations of "for _ in range(CONFIG_RETRY)" began
    entry,        \* how many init items of this attempt have succeeded
    rpc,          \* position of Task.__call__: "idle", "call", "init", "entries",
                  \*   "predict", "eval", "returned", "raised", "counted"
    own,          \* Task.__call__ is inside its own "with self.manager"
    entered0,     \* history: manager.entered when Task.__call__ was called
    resetOk,      \* history: self._init() of this attempt returned True
    nfailed,      \* history: how many attempts have failed
    ran,          \* history: the init items invoked in this attempt
    did,          \* history: which of "predict", "eval" have been invoked
    init_ret,     \* what self.init() returned: "none" (not yet), "true", "false"
    failure,      \* history: how the last failing init item failed: "raise", "false"
    \* ---- TaskGroup.__init__ on an arbitrary input (Tester.py 185-197) ----
    tgpc,         \* "idle", "raw" (constructor not yet run), "built"
    \* ---- the shard slice of Tester.__traverse (Tester.py 358-392) ----
    total_files,  \* len(all_pth)
    SPLITE,       \* int(os.environ["SPLITE"])
    INDEX,        \* int(os.environ["INDEX"])
    start,        \* local start
    end,          \* local end
    selected_pth, \* all_pth[start:end], as 0-based positions in all_pth
    spc,          \* "idle", "listed", "sliced"
    \* ---- Tester.__traverse over the task tree (Tester.py 349-409) ----
    tree,         \* the directory self.tasks_path: name -> [kind, ok, sub]
    finished,     \* the names of the list "finished" (log folders + ".json")
    discovered,   \* self.task_info as __traverse fills it: <<[infix, name]>>
    errors,       \* the files whose load failure was logged
    escaped,      \* an error has left __traverse
    xpc,          \* "idle", "start", "discovered"
    \* ---- block (utils.py 100-131) ----
    timeout,      \* the argument timeout, in seconds
    op,           \* what func does in the worker: [kind, val]
    bpc,          \* the caller in block: "idle", "join", "check", "done"
    wpc,          \* the worker: "idle", "running", "flushing", "exited", "killed"
    wbuf,         \* what wrapper has put and the feeder thread still holds
    queue,        \* the messages that have reached the pipe of the queue
    bret,         \* how block ended: [how, val, bound], how = "none" before
    intime,       \* history: "yes" if func ended before proc.join(timeout) timed
                  \*   out, "no" if the timeout expired first, "none" before
    alive         \* history: what proc.is_alive() returned: "none" (not yet
                  \*   asked), "true", "false"

varsPredict == <<steps, penalty, step_index, liquid, ppc, ret, steps0, consec,
                 penalized, emitted, lastCodes, lastExec>>
varsEval == <<evaluate, stop_type, stop_args, eval_index, epc, verdict,
              evaluate0, via, satisfied, nevals, prev>>
varsDriver == <<task_info, ignore, optimize, groups, entered, counter, dpc, gpc,
                gi, mi, gopen, cur, result_exist, tres, pos>>
varsRun == <<initialize, attempt, entry, rpc, own, entered0, resetOk, nfailed,
             ran, did, init_ret,
             failure>>
varsGroup == <<tgpc>>
varsShard == <<total_files, SPLITE, INDEX, start, end, selected_pth, spc>>
varsDiscover == <<tree, finished, discovered, errors, escaped, xpc>>
varsBlock == <<timeout, op, bpc, wpc, wbuf, queue, bret, intime, alive>>
varsMore == <<varsDiscover, varsBlock>>
varsRest == <<varsRun, varsGroup, varsShard, varsMore>>
vars == <<varsPredict, varsEval, varsDriver, varsRest>>

----------------------------------------------------------------------------
(* Bounds of the model *)
MaxSteps == 3
MaxThreshold == 2
MaxReduction == 2
MaxCodes == 2
MaxRules == 3
MaxEvals == 2
MaxTasks == 3
MaxFiles == 10
MaxSplit == 4
MaxInit == 2
MaxTimeout == 2

----------------------------------------------------------------------------
(* Stop signals: Primitive.PlannedTermination carries (type, args) *)
ANS == "ANS"
TIMEOUT == "TIMEOUT"
DONE == "DONE"
Kinds == {ANS, TIMEOUT, DONE}
ArgLists == {<<>>, <<"42">>, <<"7">>}
Signals == {<<ANS, a>> : a \in ArgLists} \cup {<<TIMEOUT, <<>>>>, <<DONE, <<>>>>}
NoSignal == <<"", <<>>>>

\* self.penalty when the config has no "penalty" field
DefaultPenalty == <<2147438648, 0>>

----------------------------------------------------------------------------
(* The parts of a task that a specification does not exercise stay idle *)

IdlePredict ==
    /\ steps = 0 /\ penalty = DefaultPenalty /\ step_index = 0 /\ liquid = 0
    /\ ppc = "idle" /\ ret = NoSignal /\ steps0 = 0 /\ consec = 0
    /\ penalized = FALSE /\ emitted = FALSE /\ lastCodes = <<>> /\ lastExec = 0

\* no evaluation of the Task has returned yet
NoEval == [evaluate |-> <<>>, stop_type |-> "", stop_args |-> <<>>,
           verdict |-> "none", via |-> "none"]

IdleEval ==
    /\ evaluate = <<>> /\ stop_type = "" /\ stop_args = <<>> /\ eval_index = 0
    /\ epc = "idle" /\ verdict = "none" /\ evaluate0 = <<>> /\ via = "none"
    /\ satisfied = {} /\ nevals = 0 /\ prev = NoEval

\* TypeSort.Sort member names and the task types of the model
Sorts == {"Raw", "VM"}
Types == {"a", "b"}
\* Tester.__manager keys self.managers by str(type_sort) = type + "_" + sort
Managers == Types \X Sorts

IdleDriver ==
    /\ task_info = <<>> /\ ignore = TRUE /\ optimize = TRUE /\ groups = <<>>
    /\ entered = [m \in Managers |-> FALSE]
    /\ counter = [passed |-> 0, failed |-> 0, skipped |-> 0, ignored |-> 0]
    /\ dpc = "idle" /\ gpc = "check" /\ gi = 0 /\ mi = 0 /\ gopen = FALSE
    /\ cur = 0 /\ result_exist = FALSE /\ tres = "none" /\ pos = 0

IdleRun ==
    /\ initialize = <<>> /\ attempt = 0 /\ entry = 0 /\ rpc = "idle"
    /\ own = FALSE /\ entered0 = FALSE /\ resetOk = FALSE /\ nfailed = 0
    /\ ran = <<>> /\ did = {} /\ init_ret = "none"
    /\ failure = "none"

IdleGroup == tgpc = "idle"

IdleShard ==
    /\ total_files = 0 /\ SPLITE = 1 /\ INDEX = 0 /\ start = 0 /\ end = 0
    /\ selected_pth = <<>> /\ spc = "idle"

\* an empty directory: a function with no names
NoDirectory == <<>>

IdleDiscover ==
    /\ tree = NoDirectory /\ finished = {} /\ discovered = <<>> /\ errors = <<>>
    /\ escaped = FALSE /\ xpc = "idle"

\* no operation
NoOp == [kind |-> "none", val |-> "none"]

\* block has not ended
NoReturn == [how |-> "none", val |-> "none", bound |-> 0]

IdleBlock ==
    /\ timeout = 0 /\ op = NoOp /\ bpc = "idle" /\ wpc = "idle"
    /\ wbuf = <<>> /\ queue = <<>>
    /\ bret = NoReturn /\ intime = "none" /\ alive = "none"

IdleMore == IdleDiscover /\ IdleBlock

IdleRest == IdleRun /\ IdleGroup /\ IdleShard /\ IdleMore

----------------------------------------------------------------------------
(* Task._step and Task.predict *)

\* what invoking one code block does: a result, a stop signal, or an error
CodeResults == {"True", "False", "None"}
Code(out, sig) == [out |-> out, sig |-> sig]
Codes == {Code(o, NoSignal) : o \in CodeResults \cup {"Error"}}
           \cup {Code("Stop", s) : s \in {<<ANS, <<"42">>>>, <<TIMEOUT, <<>>>>, <<DONE, <<>>>>}}
Responses == UNION {[1..n -> Codes] : n \in 1..MaxCodes}

\* a mutant of RunCodes: a stop signal does not end the for loop of _step
RECURSIVE RunCodes_NoBreak(_, _, _)
RunCodes_NoBreak(codes, i, results) ==
    IF i > Len(codes)
    THEN LET stops == {j \in 1..Len(codes) : codes[j].out = "Stop"}
         IN  IF stops = {}
             THEN [results |-> results, end |-> "return", sig |-> NoSignal,
                   executed |-> i - 1]
             ELSE [results |-> results, end |-> "stop",
                   sig |-> codes[CHOOSE j \in stops : \A k \in stops : k <= j].sig,
                   executed |-> i - 1]
    ELSE IF codes[i].out = "Error"
    THEN [results |-> results, end |-> "error", sig |-> NoSignal, executed |-> i]
    ELSE RunCodes_NoBreak(codes, i + 1,
            IF codes[i].out = "Stop" THEN results ELSE Append(results, codes[i].out))

\* the for loop of _step: invoke the codes in order until one raises
RECURSIVE RunCodes(_, _, _)
RunCodes(codes, i, results) ==
    IF i > Len(codes)
    THEN [results |-> results, end |-> "return", sig |-> NoSignal, executed |-> i - 1]
    ELSE IF codes[i].out = "Stop"
    THEN [results |-> results, end |-> "stop", sig |-> codes[i].sig, executed |-> i]
    ELSE IF codes[i].out = "Error"
    THEN [results |-> results, end |-> "error", sig |-> NoSignal, executed |-> i]
    ELSE RunCodes(codes, i + 1, Append(results, codes[i].out))

\* return all([item is False for item in results])
AllFalse(results) == \A i \in 1..Len(results) : results[i] = "False"

\* Task._step for a flat list of codes (the nested batches of SINGLE_STEP=1,
\* lines 285-310, are not exercised)
Step(codes) ==
    LET r == RunCodes(codes, 1, <<>>)
    IN  [end |-> r.end, sig |-> r.sig, executed |-> r.executed,
         invalid |-> AllFalse(r.results)]

\* liquid += 1 if invalid else 0
Tally(liq, invalid) == liq + (IF invalid THEN 1 ELSE 0)

\* a mutant of PenaltyHit: the threshold is compared with > instead of >=
PenaltyHit_Late(liq, pen) == liq > pen[1]

\* a mutant of Reduce: the budget is floored at zero
Reduce_Floor(budget, pen) == IF budget - pen[2] < 0 THEN 0 ELSE budget - pen[2]

\* a mutant of Reduce: the penalty is added to the budget
Reduce_Grow(budget, pen) == budget + pen[2]

\* if liquid >= self.penalty[0]: liquid = 0; self.steps -= self.penalty[1]
PenaltyHit(liq, pen) == liq >= pen[1]
Reduce(budget, pen) == budget - pen[2]

PredictConfigs ==
    {[steps |-> s, penalty |-> <<t, r>>] :
        s \in 0..MaxSteps, t \in 0..MaxThreshold, r \in 0..MaxReduction}
    \cup {[steps |-> s, penalty |-> DefaultPenalty] : s \in 0..MaxSteps}
    \cup {[steps |-> 10, penalty |-> <<3, 2>>]}

\* predict is entered: liquid, step_index = 0, 0
InitPredict ==
    /\ IdleEval /\ IdleDriver /\ IdleRest
    /\ \E c \in PredictConfigs :
          /\ steps = c.steps /\ steps0 = c.steps /\ penalty = c.penalty
    /\ step_index = 0 /\ liquid = 0 /\ ppc = "loop" /\ ret = NoSignal
    /\ consec = 0 /\ penalized = FALSE /\ emitted = FALSE
    /\ lastCodes = <<>> /\ lastExec = 0

\* one iteration of the while loop in which _step returns
PredictStep ==
    /\ UNCHANGED <<varsEval, varsDriver, varsRest>>
    /\ ppc = "loop" /\ step_index < steps
    /\ \E codes \in Responses :
          LET s == Step(codes)
              liq == Tally(liquid, s.invalid)
          IN  /\ s.end = "return"
              /\ step_index' = step_index + 1
              /\ IF PenaltyHit(liq, penalty)
                 THEN /\ liquid' = 0
                      /\ steps' = Reduce(steps, penalty)
                      /\ penalized' = TRUE
                 ELSE /\ liquid' = liq
                      /\ steps' = steps
                      /\ penalized' = FALSE
              /\ consec' = IF s.invalid THEN consec + 1 ELSE 0
    /\ UNCHANGED <<penalty, ppc, ret, steps0, emitted, lastCodes, lastExec>>

\* a code block raises Primitive.PlannedTermination: except ... return
PredictStop ==
    /\ UNCHANGED <<varsEval, varsDriver, varsRest>>
    /\ ppc = "loop" /\ step_index < steps
    /\ \E codes \in Responses :
          LET s == Step(codes)
          IN  /\ s.end = "stop"
              /\ ret' = s.sig
              /\ lastCodes' = codes /\ lastExec' = s.executed
    /\ ppc' = "returned" /\ emitted' = TRUE
    /\ UNCHANGED <<steps, penalty, step_index, liquid, steps0, consec, penalized>>

\* a code block raises any other exception: it leaves predict
PredictError ==
    /\ UNCHANGED <<varsEval, varsDriver, varsRest>>
    /\ ppc = "loop" /\ step_index < steps
    /\ \E codes \in Responses :
          LET s == Step(codes)
          IN  /\ s.end = "error"
              /\ lastCodes' = codes /\ lastExec' = s.executed
    /\ ppc' = "raised"
    /\ UNCHANGED <<steps, penalty, step_index, liquid, ret, steps0, consec,
                   penalized, emitted>>

\* the while condition fails: return Primitive.TIMEOUT, []
PredictTimeout ==
    /\ UNCHANGED <<varsEval, varsDriver, varsRest>>
    /\ ppc = "loop" /\ ~(step_index < steps)
    /\ ppc' = "returned" /\ ret' = <<TIMEOUT, <<>>>>
    /\ UNCHANGED <<steps, penalty, step_index, liquid, steps0, consec,
                   penalized, emitted, lastCodes, lastExec>>

----------------------------------------------------------------------------
(* Task.eval and Task._stop_handler *)

EARLY_STOP == "stop"

DomainNames == {"d1", "d2"}
DomainRules == {[type |-> "domain", value |-> d, args |-> <<>>] : d \in DomainNames}
StopRules == {[type |-> EARLY_STOP, value |-> ANS, args |-> a] : a \in ArgLists}
               \cup {[type |-> EARLY_STOP, value |-> k, args |-> <<>>] : k \in {TIMEOUT, DONE}}
Rules == DomainRules \cup StopRules
RuleLists == UNION {[1..n -> Rules] : n \in 0..MaxRules}

\* a mutant of DelAt: the rule after the matched one is deleted
DelAt_Next(s, i) == SubSeq(s, 1, i) \o SubSeq(s, i + 2, Len(s))

\* del self.evaluate[eval_index]   (i is 1-based here)
DelAt(s, i) == SubSeq(s, 1, i - 1) \o SubSeq(s, i + 1, Len(s))

\* a mutant of EvalIter: the arguments of an ANS rule are not compared
EvalIter_IgnoreArgs(ev, i, st, sa) ==
    LET eval_item == ev[i + 1]
    IN  IF eval_item.type # EARLY_STOP
        THEN [evaluate |-> ev, eval_index |-> i + 1, ret |-> "none"]
        ELSE IF eval_item.value # st
        THEN [evaluate |-> ev, eval_index |-> i, ret |-> "false"]
        ELSE [evaluate |-> DelAt(ev, i + 1), eval_index |-> i, ret |-> "none"]

\* a mutant of EvalIter: the scan ends at the first domain rule
EvalIter_StopAtDomain(ev, i, st, sa) ==
    LET eval_item == ev[i + 1]
    IN  IF eval_item.type # EARLY_STOP
        THEN [evaluate |-> ev, eval_index |-> Len(ev), ret |-> "none"]
        ELSE IF eval_item.value # st
        THEN [evaluate |-> ev, eval_index |-> i, ret |-> "false"]
        ELSE IF eval_item.value = ANS /\ eval_item.args # sa
        THEN [evaluate |-> ev, eval_index |-> i, ret |-> "false"]
        ELSE [evaluate |-> DelAt(ev, i + 1), eval_index |-> i, ret |-> "none"]

\* the body of the while loop of Task.eval, for 0-based eval_index i
EvalIter(ev, i, st, sa) ==
    LET eval_item == ev[i + 1]
    IN  IF eval_item.type # EARLY_STOP
        THEN [evaluate |-> ev, eval_index |-> i + 1, ret |-> "none"]
        ELSE IF eval_item.value # st
        THEN [evaluate |-> ev, eval_index |-> i, ret |-> "false"]
        ELSE IF eval_item.value = ANS /\ eval_item.args # sa
        THEN [evaluate |-> ev, eval_index |-> i, ret |-> "false"]
        ELSE [evaluate |-> DelAt(ev, i + 1), eval_index |-> i, ret |-> "none"]

\* after the loop: raise PlannedNotImplemented ("deferred") or return True
EvalAfter(ev) == IF Len(ev) > 0 THEN "deferred" ELSE "true"

\* Task.eval as a function: the outcome and the list it leaves in self.evaluate
RECURSIVE TaskEval(_, _, _, _)
TaskEval(ev, i, st, sa) ==
    IF i < Len(ev)
    THEN LET n == EvalIter(ev, i, st, sa)
         IN  IF n.ret = "false"
             THEN [outcome |-> "false", evaluate |-> n.evaluate]
             ELSE TaskEval(n.evaluate, n.eval_index, st, sa)
    ELSE [outcome |-> EvalAfter(ev), evaluate |-> ev]

\* the subclass's eval(self): a pure function of the rules left in self.evaluate
Specialized(ev, sat) ==
    IF \A i \in 1..Len(ev) : ev[i].type = EARLY_STOP \/ ev[i].value \in sat
    THEN "true" ELSE "false"

\* eval is entered with the stop signal predict returned: eval_index = 0
InitEval ==
    /\ IdlePredict /\ IdleDriver /\ IdleRest
    /\ evaluate \in RuleLists /\ evaluate0 = evaluate
    /\ \E s \in Signals : stop_type = s[1] /\ stop_args = s[2]
    /\ satisfied \in SUBSET DomainNames
    /\ eval_index = 0 /\ epc = "scan" /\ verdict = "none" /\ via = "none"
    /\ nevals = 1 /\ prev = NoEval

\* one iteration of the while loop
EvalLoop ==
    /\ UNCHANGED <<varsPredict, varsDriver, varsRest>>
    /\ epc = "scan" /\ eval_index < Len(evaluate)
    /\ LET n == EvalIter(evaluate, eval_index, stop_type, stop_args)
       IN  /\ evaluate' = n.evaluate
           /\ eval_index' = n.eval_index
           /\ epc' = IF n.ret = "false" THEN "false" ELSE "scan"
    /\ UNCHANGED <<stop_type, stop_args, verdict, evaluate0, via, satisfied,
                   nevals, prev>>

\* the loop has ended: raise Task.PlannedNotImplemented() or return True
EvalExit ==
    /\ UNCHANGED <<varsPredict, varsDriver, varsRest>>
    /\ epc = "scan" /\ ~(eval_index < Len(evaluate))
    /\ epc' = EvalAfter(evaluate)
    /\ UNCHANGED <<evaluate, stop_type, stop_args, eval_index, verdict,
                   evaluate0, via, satisfied, nevals, prev>>

\* _stop_wrapper: return Task.eval(...), the generic verdict
StopReturn ==
    /\ UNCHANGED <<varsPredict, varsDriver, varsRest>>
    /\ epc \in {"true", "false"}
    /\ verdict' = epc /\ epc' = "done" /\ via' = "generic"
    /\ UNCHANGED <<evaluate, stop_type, stop_args, eval_index, evaluate0,
                   satisfied, nevals, prev>>

\* _stop_wrapper: except Task.PlannedNotImplemented: return method(self)
StopDefer ==
    /\ UNCHANGED <<varsPredict, varsDriver, varsRest>>
    /\ epc = "deferred"
    /\ verdict' = Specialized(evaluate, satisfied) /\ epc' = "done"
    /\ via' = "specialized"
    /\ UNCHANGED <<evaluate, stop_type, stop_args, eval_index, evaluate0,
                   satisfied, nevals, prev>>

\* a mutant of EvalAgain: the rule list is restored before the scan
EvalAgain_Restore ==
    /\ UNCHANGED <<varsPredict, varsDriver, varsRest>>
    /\ epc = "done" /\ nevals < MaxEvals
    /\ \E s \in Signals : stop_type' = s[1] /\ stop_args' = s[2]
    /\ prev' = [evaluate |-> evaluate0, stop_type |-> stop_type,
                stop_args |-> stop_args, verdict |-> verdict, via |-> via]
    /\ nevals' = nevals + 1
    /\ evaluate' = evaluate0 /\ evaluate0' = evaluate0
    /\ eval_index' = 0 /\ epc' = "scan" /\ verdict' = "none" /\ via' = "none"
    /\ UNCHANGED satisfied

\* eval is called again on the same Task: self.evaluate is the list object the
\* earlier call left, config["evaluate"] being read only in the constructor
EvalAgain ==
    /\ UNCHANGED <<varsPredict, varsDriver, varsRest>>
    /\ epc = "done" /\ nevals < MaxEvals
    /\ \E s \in Signals : stop_type' = s[1] /\ stop_args' = s[2]
    /\ prev' = [evaluate |-> evaluate0, stop_type |-> stop_type,
                stop_args |-> stop_args, verdict |-> verdict, via |-> via]
    /\ nevals' = nevals + 1
    /\ evaluate0' = evaluate
    /\ eval_index' = 0 /\ epc' = "scan" /\ verdict' = "none" /\ via' = "none"
    /\ UNCHANGED <<evaluate, satisfied>>

----------------------------------------------------------------------------
(* Counter, TaskInfo, TaskGroup and Tester.__call__ *)

\* a discovered task: its config's sort and type, and whether its completion
\* record (Log.RESULT_FILENAME under its identifier) exists
Tasks == [sort : Sorts, type : Types, fin : BOOLEAN]
TaskLists == UNION {[1..n -> Tasks] : n \in 0..MaxTasks}

\* Python's order of the strings "Raw" < "VM" and "a" < "b"
StrLess(x, y) == (x = "Raw" /\ y = "VM") \/ (x = "a" /\ y = "b")

\* TypeSort.__repr__, which __eq__ and __hash__ compare
TypeSort_repr(t) == IF t.sort = "VM" THEN <<"VM", "">> ELSE <<"Raw", t.type>>

\* a mutant of TypeSort_eq: the type is dropped for Raw descriptors too
TypeSort_eq_SortOnly(t, u) == t.sort = u.sort

TypeSort_eq(t, u) == TypeSort_repr(t) = TypeSort_repr(u)

\* task.manager: Tester.__manager(type_sort), keyed by str(type_sort)
ManagerOf(t) == <<t.type, t.sort>>

\* VManager in manager.__class__.mro(): the managers made for sort VM
IsVManager(m) == m[2] = "VM"

\* Manager.__enter__ and Manager.__exit__ on the entered flags
Manager_enter(e, m) == [e EXCEPT ![m] = TRUE]
Manager_exit(e, m) == [e EXCEPT ![m] = FALSE]

\* a mutant of TaskInfo_lt: the type is not compared
TaskInfo_lt_SortOnly(left, right) == StrLess(left.sort, right.sort)

\* TaskInfo.__lt__: by sort, then by type
TaskInfo_lt(left, right) ==
    \/ StrLess(left.sort, right.sort)
    \/ (left.sort = right.sort /\ StrLess(left.type, right.type))

\* a mutant of snoop: the completion record is not consulted
snoop_Always(t) == TRUE

\* TaskInfo.snoop: True if the task has not been finished
snoop(t) == ~t.fin

\* the result-record scope "with self.log(base_path, ident, ignore) as result_exist"
ResultExist(t, ign) == ign /\ t.fin

\* sorted(self.task_info): stable, by TaskInfo.__lt__ (indices into ti)
RECURSIVE InsertSorted(_, _, _)
InsertSorted(ti, acc, x) ==
    IF acc = <<>> THEN <<x>>
    ELSE IF TaskInfo_lt(ti[x], ti[Head(acc)]) THEN <<x>> \o acc
    ELSE <<Head(acc)>> \o InsertSorted(ti, Tail(acc), x)

RECURSIVE SortedFrom(_, _, _)
SortedFrom(ti, i, acc) ==
    IF i > Len(ti) THEN acc ELSE SortedFrom(ti, i + 1, InsertSorted(ti, acc, i))

sorted(ti) == SortedFrom(ti, 1, <<>>)

\* a mutant of TaskGroup_init: a new group replaces the groups built so far
RECURSIVE TaskGroup_init_Restart(_, _, _, _)
TaskGroup_init_Restart(ti, raw, i, acc) ==
    IF i > Len(raw) THEN acc
    ELSE IF i > 1 /\ TypeSort_eq(ti[raw[i]], ti[raw[i - 1]])
    THEN TaskGroup_init_Restart(ti, raw, i + 1,
                                [acc EXCEPT ![Len(acc)] = Append(@, raw[i])])
    ELSE TaskGroup_init_Restart(ti, raw, i + 1, <<<<raw[i]>>>>)

\* TaskGroup.__init__: a new group whenever type_sort differs from the last one
RECURSIVE TaskGroup_init(_, _, _, _)
TaskGroup_init(ti, raw, i, acc) ==
    IF i > Len(raw) THEN acc
    ELSE IF i > 1 /\ TypeSort_eq(ti[raw[i]], ti[raw[i - 1]])
    THEN TaskGroup_init(ti, raw, i + 1, [acc EXCEPT ![Len(acc)] = Append(@, raw[i])])
    ELSE TaskGroup_init(ti, raw, i + 1, Append(acc, <<raw[i]>>))

TaskGroup(ti, raw) == TaskGroup_init(ti, raw, 1, <<>>)

\* TaskGroup.__check: the assertions hold
TaskGroup_check(ti, gs) ==
    \A g \in 1..Len(gs) :
        /\ Len(gs[g]) > 0
        /\ \A k \in 1..Len(gs[g]) :
              LET first == ManagerOf(ti[gs[g][1]])
                  current == ManagerOf(ti[gs[g][k]])
              IN  first # current => (IsVManager(first) /\ IsVManager(current))

\* a mutant of has_unfinished: all() in place of any()
has_unfinished_All(ti, group) == \A k \in 1..Len(group) : snoop(ti[group[k]])

\* has_unfinished = any([item.snoop(base_path) for item in group])
has_unfinished(ti, group) == \E k \in 1..Len(group) : snoop(ti[group[k]])

\* a mutant of Counter_ignore: the ignored task is not counted
Counter_ignore_Lost(c) == c

\* Counter._pass, _fail, _skip, _ignore
Counter_pass(c) == [c EXCEPT !.passed = @ + 1]
Counter_fail(c) == [c EXCEPT !.failed = @ + 1]
Counter_skip(c) == [c EXCEPT !.skipped = @ + 1]
Counter_ignore(c) == [c EXCEPT !.ignored = @ + 1]

\* a mutant of CountVerdict: a raising task is counted as failed
CountVerdict_RaiseFails(c, res) ==
    IF res = "true" THEN Counter_pass(c) ELSE Counter_fail(c)

\* try: counter._pass() if task_info() else counter._fail()
\* except Exception: counter._skip()
CountVerdict(c, res) ==
    IF res = "raise" THEN Counter_skip(c)
    ELSE IF res = "true" THEN Counter_pass(c)
    ELSE Counter_fail(c)

\* Task.__call__ for a manager whose entered flag is `was`: how the call ends
\* and the flag after it.  Not entered: "with self.manager" closes it on return
\* and on raise.  Entered (shared by a group): it is reused and stays entered,
\* unless init fails with Task._init having left the manager exited.
TaskCall(was) ==
    IF ~was
    THEN {[res |-> r, after |-> FALSE] : r \in {"true", "false", "raise"}}
    ELSE {[res |-> r, after |-> TRUE] : r \in {"true", "false", "raise"}}
            \cup {[res |-> "raise", after |-> FALSE]}

Init ==
    /\ IdlePredict /\ IdleEval /\ IdleRest
    /\ task_info \in TaskLists
    /\ ignore \in BOOLEAN /\ optimize \in BOOLEAN
    /\ groups = TaskGroup(task_info, sorted(task_info))
    /\ entered = [m \in Managers |-> FALSE]
    /\ counter = [passed |-> 0, failed |-> 0, skipped |-> 0, ignored |-> 0]
    /\ dpc = "iter" /\ gpc = "check" /\ gi = 0 /\ mi = 0 /\ gopen = FALSE
    /\ cur = 0 /\ result_exist = FALSE /\ tres = "none" /\ pos = 0

\* the generator starts at the first next(): self.__check()
GenCheck ==
    /\ UNCHANGED <<varsPredict, varsEval, varsRest>>
    /\ dpc = "iter" /\ optimize /\ gpc = "check"
    /\ IF TaskGroup_check(task_info, groups)
       THEN gpc' = "group" /\ gi' = 1 /\ dpc' = dpc
       ELSE gpc' = gpc /\ gi' = gi /\ dpc' = "raised"
    /\ UNCHANGED <<task_info, ignore, optimize, groups, entered, counter, mi,
                   gopen, cur, result_exist, tres, pos>>

\* for group in self.groups: the session of the group is entered, or not
GroupOpen ==
    /\ UNCHANGED <<varsPredict, varsEval, varsRest>>
    /\ dpc = "iter" /\ optimize /\ gpc = "group" /\ gi <= Len(groups)
    /\ IF has_unfinished(task_info, groups[gi]) \/ ~ignore
       THEN /\ entered' = Manager_enter(entered, ManagerOf(task_info[groups[gi][1]]))
            /\ gopen' = TRUE
       ELSE /\ entered' = entered
            /\ gopen' = FALSE
    /\ gpc' = "member" /\ mi' = 1
    /\ UNCHANGED <<task_info, ignore, optimize, groups, counter, dpc, gi, cur,
                   result_exist, tres, pos>>

\* manager.__enter__ of the group's session raises: nothing catches it
GroupOpenFail ==
    /\ UNCHANGED <<varsPredict, varsEval, varsRest>>
    /\ dpc = "iter" /\ optimize /\ gpc = "group" /\ gi <= Len(groups)
    /\ has_unfinished(task_info, groups[gi]) \/ ~ignore
    /\ dpc' = "raised"
    /\ UNCHANGED <<task_info, ignore, optimize, groups, entered, counter, gpc, gi,
                   mi, gopen, cur, result_exist, tres, pos>>

\* yield task_info
GenYield ==
    /\ UNCHANGED <<varsPredict, varsEval, varsRest>>
    /\ dpc = "iter" /\ optimize /\ gpc = "member" /\ mi <= Len(groups[gi])
    /\ cur' = groups[gi][mi] /\ mi' = mi + 1 /\ pos' = pos + 1
    /\ dpc' = "scope"
    /\ UNCHANGED <<task_info, ignore, optimize, groups, entered, counter, gpc, gi,
                   gopen, result_exist, tres>>

\* the members of the group are exhausted: the with block is left
GroupClose ==
    /\ UNCHANGED <<varsPredict, varsEval, varsRest>>
    /\ dpc = "iter" /\ optimize /\ gpc = "member" /\ mi > Len(groups[gi])
    /\ entered' = IF gopen
                  THEN Manager_exit(entered, ManagerOf(task_info[groups[gi][1]]))
                  ELSE entered
    /\ gopen' = FALSE /\ gi' = gi + 1 /\ gpc' = "group"
    /\ UNCHANGED <<task_info, ignore, optimize, groups, counter, dpc, mi, cur,
                   result_exist, tres, pos>>

\* manager.__exit__ of the group's session raises: nothing catches it
GroupCloseFail ==
    /\ UNCHANGED <<varsPredict, varsEval, varsRest>>
    /\ dpc = "iter" /\ optimize /\ gpc = "member" /\ mi > Len(groups[gi]) /\ gopen
    /\ dpc' = "raised"
    /\ UNCHANGED <<task_info, ignore, optimize, groups, entered, counter, gpc, gi,
                   mi, gopen, cur, result_exist, tres, pos>>

\* the generator is exhausted: the for loop ends and __call__ returns
GenStop ==
    /\ UNCHANGED <<varsPredict, varsEval, varsRest>>
    /\ dpc = "iter" /\ optimize /\ gpc = "group" /\ gi > Len(groups)
    /\ dpc' = "done"
    /\ UNCHANGED <<task_info, ignore, optimize, groups, entered, counter, gpc, gi,
                   mi, gopen, cur, result_exist, tres, pos>>

\* not self.optimize: for task_info in self.task_info
PlainNext ==
    /\ UNCHANGED <<varsPredict, varsEval, varsRest>>
    /\ dpc = "iter" /\ ~optimize /\ pos < Len(task_info)
    /\ cur' = pos + 1 /\ pos' = pos + 1 /\ dpc' = "scope"
    /\ UNCHANGED <<task_info, ignore, optimize, groups, entered, counter, gpc, gi,
                   mi, gopen, result_exist, tres>>

PlainStop ==
    /\ UNCHANGED <<varsPredict, varsEval, varsRest>>
    /\ dpc = "iter" /\ ~optimize /\ ~(pos < Len(task_info))
    /\ dpc' = "done"
    /\ UNCHANGED <<task_info, ignore, optimize, groups, entered, counter, gpc, gi,
                   mi, gopen, cur, result_exist, tres, pos>>

\* with self.log(...) as result_exist
ScopeEnter ==
    /\ UNCHANGED <<varsPredict, varsEval, varsRest>>
    /\ dpc = "scope"
    /\ result_exist' = ResultExist(task_info[cur], ignore)
    /\ dpc' = "body"
    /\ UNCHANGED <<task_info, ignore, optimize, groups, entered, counter, gpc, gi,
                   mi, gopen, cur, tres, pos>>

\* entering the result-record scope raises: nothing catches it
ScopeEnterFail ==
    /\ UNCHANGED <<varsPredict, varsEval, varsRest>>
    /\ dpc = "scope"
    /\ dpc' = "raised"
    /\ UNCHANGED <<task_info, ignore, optimize, groups, entered, counter, gpc, gi,
                   mi, gopen, cur, result_exist, tres, pos>>

\* if result_exist: counter._ignore(); continue
Ignore ==
    /\ UNCHANGED <<varsPredict, varsEval, varsRest>>
    /\ dpc = "body" /\ result_exist
    /\ counter' = Counter_ignore(counter)
    /\ dpc' = "leave"
    /\ UNCHANGED <<task_info, ignore, optimize, groups, entered, gpc, gi, mi,
                   gopen, cur, result_exist, tres, pos>>

\* a mutant of Invoke: the task is invoked whether or not its record exists
Invoke_Always ==
    /\ UNCHANGED <<varsPredict, varsEval, varsRest>>
    /\ dpc = "body"
    /\ LET m == ManagerOf(task_info[cur])
       IN  \E out \in TaskCall(entered[m]) :
              /\ tres' = out.res
              /\ entered' = [entered EXCEPT ![m] = out.after]
              /\ counter' = CountVerdict(counter, out.res)
    /\ dpc' = "leave"
    /\ UNCHANGED <<task_info, ignore, optimize, groups, gpc, gi, mi, gopen, cur,
                   result_exist, pos>>

\* the try block: the task is invoked and its end is counted
Invoke ==
    /\ UNCHANGED <<varsPredict, varsEval, varsRest>>
    /\ dpc = "body" /\ ~result_exist
    /\ LET m == ManagerOf(task_info[cur])
       IN  \E out \in TaskCall(entered[m]) :
              /\ tres' = out.res
              /\ entered' = [entered EXCEPT ![m] = out.after]
              /\ counter' = CountVerdict(counter, out.res)
    /\ dpc' = "leave"
    /\ UNCHANGED <<task_info, ignore, optimize, groups, gpc, gi, mi, gopen, cur,
                   result_exist, pos>>

\* the result-record scope is left; the for loop goes on
ScopeExit ==
    /\ UNCHANGED <<varsPredict, varsEval, varsRest>>
    /\ dpc = "leave"
    /\ dpc' = "iter"
    /\ UNCHANGED <<task_info, ignore, optimize, groups, entered, counter, gpc, gi,
                   mi, gopen, cur, result_exist, tres, pos>>

\* leaving the result-record scope raises: nothing catches it
ScopeExitFail ==
    /\ UNCHANGED <<varsPredict, varsEval, varsRest>>
    /\ dpc = "leave"
    /\ dpc' = "raised"
    /\ UNCHANGED <<task_info, ignore, optimize, groups, entered, counter, gpc, gi,
                   mi, gopen, cur, result_exist, tres, pos>>

----------------------------------------------------------------------------
(* Task.__call__ with Task.init and Task._init (task.py 196-258, 391-423),   *)
(* called from the try block of Tester.__call__ (Tester.py 439-443)         *)

\* Task.CONFIG_RETRY
CONFIG_RETRY == 5

\* the names of the init items of the model and the lists self.initialize
InitItems == {"launch", "open"}
InitLists == UNION {[1..n -> InitItems] : n \in 0..MaxInit}

\* the manager of the task that is run
RunManager == ManagerOf(task_info[cur])

\* the entered flags the Driver can have when it invokes task t: no session is
\* open, or the one the group holds open, which is the task's own manager or,
\* as TaskGroup.__check allows, the VM manager of the group's first member
\* (whose type sorts before that of t in the plan)
SessionsAtCall(t) ==
    {e \in [Managers -> BOOLEAN] :
        /\ Cardinality({x \in Managers : e[x]}) <= 1
        /\ \A x \in Managers :
              (e[x] /\ x # ManagerOf(t))
                  => /\ IsVManager(x) /\ IsVManager(ManagerOf(t))
                     /\ StrLess(x[1], t.type)}

InitRun ==
    /\ IdlePredict /\ IdleEval /\ IdleGroup /\ IdleShard /\ IdleMore
    /\ \E t \in Tasks : ~t.fin /\ task_info = <<t>> /\ entered \in SessionsAtCall(t)
    /\ ignore = TRUE /\ optimize = TRUE /\ groups = <<>>
    /\ counter = [passed |-> 0, failed |-> 0, skipped |-> 0, ignored |-> 0]
    /\ dpc = "body" /\ gpc = "check" /\ gi = 0 /\ mi = 0 /\ gopen = FALSE
    /\ cur = 1 /\ result_exist = FALSE /\ tres = "none" /\ pos = 1
    /\ initialize \in InitLists
    /\ attempt = 0 /\ entry = 0 /\ rpc = "call" /\ own = FALSE
    /\ entered0 = entered[ManagerOf(task_info[1])]
    /\ resetOk = FALSE /\ nfailed = 0 /\ ran = <<>> /\ did = {} /\ init_ret = "none"
    /\ failure = "none"

\* the entered flags when Task.__call__ is left: "with self.manager" exits the
\* manager the call entered itself, a shared one is left as it is
AfterCall(e, o, m) == IF o THEN Manager_exit(e, m) ELSE e

\* a mutant of MoreAttempts: one attempt more
MoreAttempts_OneMore(a) == a <= CONFIG_RETRY

\* for _ in range(Task.CONFIG_RETRY): there is another iteration
MoreAttempts(a) == a < CONFIG_RETRY

\* Task.__call__: "with self.manager" when the manager is not entered,
\* manager._post__enter__() when it is
RunEnter ==
    /\ UNCHANGED <<varsPredict, varsEval, varsGroup, varsShard, varsMore>>
    /\ rpc = "call"
    /\ IF ~entered[RunManager]
       THEN entered' = Manager_enter(entered, RunManager) /\ own' = TRUE
       ELSE entered' = entered /\ own' = FALSE
    /\ rpc' = "init"
    /\ UNCHANGED <<task_info, ignore, optimize, groups, counter, dpc, gpc, gi, mi,
                   gopen, cur, result_exist, tres, pos>>
    /\ UNCHANGED <<initialize, attempt, entry, entered0, resetOk, nfailed, ran,
                   did, init_ret, failure>>

\* manager.__enter__ or manager._post__enter__ raises
RunEnterFail ==
    /\ UNCHANGED <<varsPredict, varsEval, varsGroup, varsShard, varsMore>>
    /\ rpc = "call"
    /\ rpc' = "raised" /\ tres' = "raise"
    /\ UNCHANGED <<task_info, ignore, optimize, groups, entered, counter, dpc, gpc,
                   gi, mi, gopen, cur, result_exist, pos>>
    /\ UNCHANGED <<initialize, attempt, entry, own, entered0, resetOk, nfailed,
                   ran, did, init_ret, failure>>

\* an iteration of the retry loop whose self._init() returns True: the manager
\* is exited and entered again, and the loop over self.initialize starts
InitReset ==
    /\ UNCHANGED <<varsPredict, varsEval, varsGroup, varsShard, varsMore>>
    /\ rpc = "init" /\ MoreAttempts(attempt)
    /\ attempt' = attempt + 1
    /\ entered' = Manager_enter(Manager_exit(entered, RunManager), RunManager)
    /\ resetOk' = TRUE /\ entry' = 0 /\ ran' = <<>>
    /\ rpc' = "entries"
    /\ UNCHANGED <<task_info, ignore, optimize, groups, counter, dpc, gpc, gi, mi,
                   gopen, cur, result_exist, tres, pos>>
    /\ UNCHANGED <<initialize, own, entered0, nfailed, did, init_ret, failure>>

\* a mutant of InitResetFail: the "continue" after a failed reset is missing
InitResetFail_NoContinue ==
    /\ UNCHANGED <<varsPredict, varsEval, varsGroup, varsShard, varsMore>>
    /\ rpc = "init" /\ MoreAttempts(attempt)
    /\ attempt' = attempt + 1
    /\ \E e \in {entered[RunManager], FALSE} :
          entered' = [entered EXCEPT ![RunManager] = e]
    /\ resetOk' = FALSE /\ entry' = 0 /\ ran' = <<>>
    /\ rpc' = "entries"
    /\ UNCHANGED <<task_info, ignore, optimize, groups, counter, dpc, gpc, gi, mi,
                   gopen, cur, result_exist, tres, pos>>
    /\ UNCHANGED <<initialize, own, entered0, nfailed, did, init_ret, failure>>

\* an iteration whose self._init() returns False: manager.__exit__ raised (the
\* flag is as it was, or cleared) or manager.__enter__ raised (the manager is
\* left exited); the attempt is over
InitResetFail ==
    /\ UNCHANGED <<varsPredict, varsEval, varsGroup, varsShard, varsMore>>
    /\ rpc = "init" /\ MoreAttempts(attempt)
    /\ attempt' = attempt + 1
    /\ \E e \in {entered[RunManager], FALSE} :
          entered' = [entered EXCEPT ![RunManager] = e]
    /\ resetOk' = FALSE /\ entry' = 0 /\ ran' = <<>>
    /\ nfailed' = nfailed + 1
    /\ rpc' = "init"
    /\ UNCHANGED <<task_info, ignore, optimize, groups, counter, dpc, gpc, gi, mi,
                   gopen, cur, result_exist, tres, pos>>
    /\ UNCHANGED <<initialize, own, entered0, did, init_ret, failure>>

\* the next init item is invoked and returns a true value
InitEntryOk ==
    /\ UNCHANGED <<varsPredict, varsEval, varsDriver, varsGroup, varsShard, varsMore>>
    /\ rpc = "entries" /\ entry < Len(initialize)
    /\ ran' = Append(ran, initialize[entry + 1])
    /\ entry' = entry + 1
    /\ UNCHANGED <<initialize, attempt, rpc, own, entered0, resetOk, nfailed, did,
                   init_ret, failure>>

\* a mutant of InitEntryFail: the break is missing, the loop goes on to the
\* next init item
InitEntryFail_NoBreak ==
    /\ UNCHANGED <<varsPredict, varsEval, varsDriver, varsGroup, varsShard, varsMore>>
    /\ rpc = "entries" /\ entry < Len(initialize)
    /\ ran' = Append(ran, initialize[entry + 1])
    /\ failure' \in {"raise", "false"}
    /\ nfailed' = nfailed + 1
    /\ IF entry + 1 < Len(initialize)
       THEN entry' = entry + 1 /\ rpc' = "entries"
       ELSE entry' = entry /\ rpc' = "init"
    /\ UNCHANGED <<initialize, attempt, own, entered0, resetOk, did, init_ret>>

\* the next init item is invoked and raises (except Exception logs it) or
\* returns a false value; succeed is not true in the finally clause:
\* feedback = False, break, and the attempt is over
InitEntryFail ==
    /\ UNCHANGED <<varsPredict, varsEval, varsDriver, varsGroup, varsShard, varsMore>>
    /\ rpc = "entries" /\ entry < Len(initialize)
    /\ ran' = Append(ran, initialize[entry + 1])
    /\ failure' \in {"raise", "false"}
    /\ nfailed' = nfailed + 1
    /\ rpc' = "init"
    /\ UNCHANGED <<initialize, attempt, entry, own, entered0, resetOk, did,
                   init_ret>>

\* a mutant of InitSucceed: init returns True with init items left to invoke
InitSucceed_Early ==
    /\ UNCHANGED <<varsPredict, varsEval, varsDriver, varsGroup, varsShard, varsMore>>
    /\ rpc = "entries" /\ entry <= Len(initialize)
    /\ init_ret' = "true"
    /\ rpc' = "predict"
    /\ UNCHANGED <<initialize, attempt, entry, own, entered0, resetOk, nfailed,
                   ran, did, failure>>

\* every init item succeeded: init returns True and __call goes on to predict
InitSucceed ==
    /\ UNCHANGED <<varsPredict, varsEval, varsDriver, varsGroup, varsShard, varsMore>>
    /\ rpc = "entries" /\ entry = Len(initialize)
    /\ init_ret' = "true"
    /\ rpc' = "predict"
    /\ UNCHANGED <<initialize, attempt, entry, own, entered0, resetOk, nfailed,
                   ran, did, failure>>

\* a mutant of InitExhausted: the assert on the result of init is missing
InitExhausted_NoAssert ==
    /\ UNCHANGED <<varsPredict, varsEval, varsDriver, varsGroup, varsShard, varsMore>>
    /\ rpc = "init" /\ ~MoreAttempts(attempt)
    /\ init_ret' = "false"
    /\ rpc' = "predict"
    /\ UNCHANGED <<initialize, attempt, entry, own, entered0, resetOk, nfailed,
                   ran, did, failure>>

\* the loop is exhausted: init returns False, "assert self.init()" raises and
\* Task.__call__ is left
InitExhausted ==
    /\ UNCHANGED <<varsPredict, varsEval, varsGroup, varsShard, varsMore>>
    /\ rpc = "init" /\ ~MoreAttempts(attempt)
    /\ init_ret' = "false"
    /\ entered' = AfterCall(entered, own, RunManager) /\ own' = FALSE
    /\ tres' = "raise" /\ rpc' = "raised"
    /\ UNCHANGED <<task_info, ignore, optimize, groups, counter, dpc, gpc, gi, mi,
                   gopen, cur, result_exist, pos>>
    /\ UNCHANGED <<initialize, attempt, entry, entered0, resetOk, nfailed, ran,
                   did, failure>>

\* self.predict() returns a stop signal
RunPredict ==
    /\ UNCHANGED <<varsPredict, varsEval, varsDriver, varsGroup, varsShard, varsMore>>
    /\ rpc = "predict"
    /\ did' = did \cup {"predict"}
    /\ rpc' = "eval"
    /\ UNCHANGED <<initialize, attempt, entry, own, entered0, resetOk, nfailed,
                   ran, init_ret, failure>>

\* self.predict() raises
RunPredictFail ==
    /\ UNCHANGED <<varsPredict, varsEval, varsGroup, varsShard, varsMore>>
    /\ rpc = "predict"
    /\ did' = did \cup {"predict"}
    /\ entered' = AfterCall(entered, own, RunManager) /\ own' = FALSE
    /\ tres' = "raise" /\ rpc' = "raised"
    /\ UNCHANGED <<task_info, ignore, optimize, groups, counter, dpc, gpc, gi, mi,
                   gopen, cur, result_exist, pos>>
    /\ UNCHANGED <<initialize, attempt, entry, entered0, resetOk, nfailed, ran,
                   init_ret, failure>>

\* self.eval(stop_type, stop_args) returns the verdict, or raises
RunEval ==
    /\ UNCHANGED <<varsPredict, varsEval, varsGroup, varsShard, varsMore>>
    /\ rpc = "eval"
    /\ did' = did \cup {"eval"}
    /\ \E r \in {"true", "false", "raise"} :
          /\ tres' = r
          /\ rpc' = IF r = "raise" THEN "raised" ELSE "returned"
    /\ entered' = AfterCall(entered, own, RunManager) /\ own' = FALSE
    /\ UNCHANGED <<task_info, ignore, optimize, groups, counter, dpc, gpc, gi, mi,
                   gopen, cur, result_exist, pos>>
    /\ UNCHANGED <<initialize, attempt, entry, entered0, resetOk, nfailed, ran,
                   init_ret, failure>>

\* the try block of Tester.__call__ counts how the task ended
RunCount ==
    /\ UNCHANGED <<varsPredict, varsEval, varsGroup, varsShard, varsMore>>
    /\ dpc = "body" /\ rpc \in {"returned", "raised"}
    /\ counter' = CountVerdict(counter, tres)
    /\ rpc' = "counted" /\ dpc' = "leave"
    /\ UNCHANGED <<task_info, ignore, optimize, groups, entered, gpc, gi, mi,
                   gopen, cur, result_exist, tres, pos>>
    /\ UNCHANGED <<initialize, attempt, entry, own, entered0, resetOk, nfailed,
                   ran, did, init_ret, failure>>

----------------------------------------------------------------------------
(* TaskGroup.__init__ applied to an arbitrary input list (Tester.py 185-197) *)

\* the raw list handed to the constructor, as indices into task_info
RawOrder(ti) == [k \in 1..Len(ti) |-> k]

InitGroup ==
    /\ IdlePredict /\ IdleEval /\ IdleRun /\ IdleShard /\ IdleMore
    /\ task_info \in TaskLists
    /\ ignore = TRUE /\ optimize = TRUE /\ groups = <<>>
    /\ entered = [m \in Managers |-> FALSE]
    /\ counter = [passed |-> 0, failed |-> 0, skipped |-> 0, ignored |-> 0]
    /\ dpc = "idle" /\ gpc = "check" /\ gi = 0 /\ mi = 0 /\ gopen = FALSE
    /\ cur = 0 /\ result_exist = FALSE /\ tres = "none" /\ pos = 0
    /\ tgpc = "raw"

\* TaskGroup(raw) with the list as it is given
Partition ==
    /\ UNCHANGED <<varsPredict, varsEval, varsRun, varsShard, varsMore>>
    /\ tgpc = "raw"
    /\ groups' = TaskGroup(task_info, RawOrder(task_info))
    /\ tgpc' = "built"
    /\ UNCHANGED <<task_info, ignore, optimize, entered, counter, dpc, gpc, gi,
                   mi, gopen, cur, result_exist, tres, pos>>

\* TaskGroup(sorted(self.task_info)), as Tester.__init__ builds the plan
PartitionSorted ==
    /\ UNCHANGED <<varsPredict, varsEval, varsRun, varsShard, varsMore>>
    /\ tgpc = "raw"
    /\ groups' = TaskGroup(task_info, sorted(task_info))
    /\ tgpc' = "planned"
    /\ UNCHANGED <<task_info, ignore, optimize, entered, counter, dpc, gpc, gi,
                   mi, gopen, cur, result_exist, tres, pos>>

----------------------------------------------------------------------------
(* The shard slice of Tester.__traverse (Tester.py 358-392) *)

Min(a, b) == IF a < b THEN a ELSE b

\* a mutant of Shard: the last shards, not the first, take the remainder
Shard_RemainderLast(n, s, i) ==
    LET base_size == n \div s
        remainder == n % s
        extra(k) == IF k > s - remainder THEN k - (s - remainder) ELSE 0
    IN  [start |-> i * base_size + extra(i),
         end |-> Min((i + 1) * base_size + extra(i + 1), n)]

\* a mutant of Shard: the remainder is not handed out
Shard_EvenOnly(n, s, i) ==
    LET base_size == n \div s
    IN  [start |-> i * base_size, end |-> Min(i * base_size + base_size, n)]

\* start and end of the slice of shard i of s over n entries
Shard(n, s, i) ==
    LET base_size == n \div s
        remainder == n % s
        st == IF i < remainder
              THEN i * (base_size + 1)
              ELSE remainder * (base_size + 1) + (i - remainder) * base_size
        en == IF i < remainder THEN st + base_size + 1 ELSE st + base_size
    IN  [start |-> st, end |-> Min(en, n)]

\* all_pth[a:b] for 0 <= a, 0 <= b, over the positions 0..n-1 of all_pth
PySlice(n, a, b) ==
    LET hi == Min(b, n)
    IN  IF a < hi THEN [k \in 1..(hi - a) |-> a + k - 1] ELSE <<>>

InitShard ==
    /\ IdlePredict /\ IdleEval /\ IdleDriver /\ IdleRun /\ IdleGroup /\ IdleMore
    /\ total_files \in 0..MaxFiles
    /\ SPLITE \in 1..MaxSplit
    /\ INDEX \in 0..(SPLITE - 1)
    /\ start = 0 /\ end = 0 /\ selected_pth = <<>> /\ spc = "listed"

\* start, end and selected_pth are computed
ShardSelect ==
    /\ UNCHANGED <<varsPredict, varsEval, varsDriver, varsRun, varsGroup, varsMore>>
    /\ spc = "listed"
    /\ start' = Shard(total_files, SPLITE, INDEX).start
    /\ end' = Shard(total_files, SPLITE, INDEX).end
    /\ selected_pth' = PySlice(total_files, start', end')
    /\ spc' = "sliced"
    /\ UNCHANGED <<total_files, SPLITE, INDEX>>

----------------------------------------------------------------------------
(* Tester.__traverse over a directory tree (Tester.py 349-409)              *)
(* A name is the list of its dot-separated parts: "a.v2.json" is            *)
(* <<"a", "v2", "json">>.  A directory maps the names it holds to entries.  *)

FileNames == {<<"a", "json">>, <<"a", "v2", "json">>, <<"b", "json">>}
DirName == <<"d">>

\* the names of the model in the order sorted() gives their strings:
\* "a.json" < "a.v2.json" < "b.json" < "d"
NameOrder == <<<<"a", "json">>, <<"a", "v2", "json">>, <<"b", "json">>, <<"d">>>>

\* a definition file whose load succeeds (ok) or raises, and a sub-directory
File(ok) == [kind |-> "file", ok |-> ok, sub |-> NoDirectory]
Dir(sub) == [kind |-> "dir", ok |-> TRUE, sub |-> sub]

\* directories of definition files only
LeafDirs == UNION {[ns -> {File(TRUE), File(FALSE)}] : ns \in SUBSET FileNames}
\* the same with, possibly, the sub-directory "d" of definition files
MidDirs == LeafDirs \cup {l @@ (DirName :> Dir(sub)) : l, sub \in LeafDirs}
\* the task trees of the model: up to three levels
Trees == MidDirs \cup {(DirName :> Dir(m)) : m \in MidDirs}

\* sorted(list(set(all_pth).difference(set(finished))))
Listing(dir, fin) ==
    LET keep(n) == n \in DOMAIN dir /\ n \notin fin
    IN  SelectSeq(NameOrder, keep)

\* selected_pth = all_pth[start:end] for process idx of spl
Selected(all_pth, idx, spl) ==
    LET sl == Shard(Len(all_pth), spl, idx)
        at == PySlice(Len(all_pth), sl.start, sl.end)
    IN  [k \in 1..Len(at) |-> all_pth[at[k] + 1]]

\* what a traversal has done so far
NoneFound == [task_info |-> <<>>, errors |-> <<>>, raised |-> FALSE]

\* a mutant of LoadFile: the load is not inside try/except
LoadFile_NoCatch(acc, dir, infix, name) ==
    IF dir[name].ok
    THEN [acc EXCEPT !.task_info = Append(@, [infix |-> infix, name |-> name])]
    ELSE [acc EXCEPT !.raised = TRUE]

\* try: self.task_info.append(TaskInfo(self.__load(path), infix))
\* except Exception: self.log.error(...)
LoadFile(acc, dir, infix, name) ==
    IF dir[name].ok
    THEN [acc EXCEPT !.task_info = Append(@, [infix |-> infix, name |-> name])]
    ELSE [acc EXCEPT !.errors = Append(@, [infix |-> infix, name |-> name])]

\* __traverse(current_infix), and its loop "for unknown_name in selected_pth"
\* from position k on; an error that is raised ends both
RECURSIVE Traverse(_, _, _, _, _, _)
RECURSIVE Visit(_, _, _, _, _, _, _, _)
Traverse(dir, infix, fin, idx, spl, acc) ==
    Visit(dir, infix, fin, idx, spl, Selected(Listing(dir, fin), idx, spl), 1, acc)

Visit(dir, infix, fin, idx, spl, sel, k, acc) ==
    IF k > Len(sel) \/ acc.raised THEN acc
    ELSE LET name == sel[k]
             next == IF dir[name].kind = "file"
                     THEN LoadFile(acc, dir, infix, name)
                     ELSE Traverse(dir[name].sub, infix \o name, fin, idx, spl, acc)
         IN  Visit(dir, infix, fin, idx, spl, sel, k + 1, next)

\* self.name = os.path.split(self.path)[1].split(".")[0]
Task_name(name) == name[1]

\* TaskInfo.ident = os.path.join(self.infix, self.task.name), as path parts
ident(t) == Append(t.infix, Task_name(t.name))

InitDiscover ==
    /\ IdlePredict /\ IdleEval /\ IdleDriver /\ IdleRun /\ IdleGroup /\ IdleBlock
    /\ tree \in Trees
    /\ finished \in SUBSET {<<"a", "json">>, <<"b", "json">>}
    /\ SPLITE \in 1..MaxSplit
    /\ INDEX \in 0..(SPLITE - 1)
    /\ total_files = 0 /\ start = 0 /\ end = 0 /\ selected_pth = <<>> /\ spc = "idle"
    /\ discovered = <<>> /\ errors = <<>> /\ escaped = FALSE /\ xpc = "start"

\* self.__traverse() of Tester.__init__, by the process with this INDEX
Discover ==
    /\ UNCHANGED <<varsPredict, varsEval, varsDriver, varsRun, varsGroup, varsShard,
                   varsBlock>>
    /\ xpc = "start"
    /\ LET r == Traverse(tree, <<>>, finished, INDEX, SPLITE, NoneFound)
       IN  /\ discovered' = r.task_info
           /\ errors' = r.errors
           /\ escaped' = r.raised
    /\ xpc' = "discovered"
    /\ UNCHANGED <<tree, finished>>

----------------------------------------------------------------------------
(* block(timeout, func, ...) (utils.py 100-131): func runs in a worker      *)
(* process, which hands ("result", value) or ("error", traceback) back      *)
(* through a multiprocessing.Queue                                          *)

\* what func can do: return a value that pickles and fits the pipe of the
\* queue, return one that does not pickle, return one larger than the pipe
\* buffer, raise an Exception, end the worker otherwise (SystemExit, a signal),
\* or never end (within the time the model looks at)
Ops ==
    {[kind |-> "result", val |-> v] : v \in {"None", "False", "42"}}
        \cup {[kind |-> "unpicklable", val |-> "lambda"],
              [kind |-> "large", val |-> "big"]}
        \cup {[kind |-> "error", val |-> e] : e \in {"ValueError", "AssertionError"}}
        \cup {[kind |-> "exit", val |-> e] : e \in {"SystemExit", "SIGKILL"}}
        \cup {[kind |-> "hang", val |-> "none"]}

Returning == {"result", "unpicklable", "large"}

InitBlock ==
    /\ IdlePredict /\ IdleEval /\ IdleDriver /\ IdleRun /\ IdleGroup /\ IdleShard
    /\ IdleDiscover
    /\ timeout \in 1..MaxTimeout
    /\ op \in Ops
    /\ bpc = "join" /\ wpc = "running" /\ wbuf = <<>> /\ queue = <<>>
    /\ bret = NoReturn /\ intime = "none" /\ alive = "none"

\* wrapper: func returns and queue.put(("result", result)) hands the message
\* to the feeder thread of the queue
WorkerResult ==
    /\ UNCHANGED <<varsPredict, varsEval, varsDriver, varsRun, varsGroup, varsShard,
                   varsDiscover>>
    /\ wpc = "running" /\ op.kind \in Returning
    /\ wbuf' = <<[status |-> "result", value |-> op.val, kind |-> op.kind]>>
    /\ wpc' = "flushing"
    /\ intime' = IF intime = "none" THEN "yes" ELSE intime
    /\ UNCHANGED <<timeout, op, bpc, queue, bret, alive>>

\* wrapper: func raises an Exception and queue.put(("error", traceback))
WorkerError ==
    /\ UNCHANGED <<varsPredict, varsEval, varsDriver, varsRun, varsGroup, varsShard,
                   varsDiscover>>
    /\ wpc = "running" /\ op.kind = "error"
    /\ wbuf' = <<[status |-> "error", value |-> op.val, kind |-> "result"]>>
    /\ wpc' = "flushing"
    /\ intime' = IF intime = "none" THEN "yes" ELSE intime
    /\ UNCHANGED <<timeout, op, bpc, queue, bret, alive>>

\* func ends the worker with something "except Exception" does not catch:
\* nothing is put
WorkerDies ==
    /\ UNCHANGED <<varsPredict, varsEval, varsDriver, varsRun, varsGroup, varsShard,
                   varsDiscover>>
    /\ wpc = "running" /\ op.kind = "exit"
    /\ wpc' = "exited"
    /\ intime' = IF intime = "none" THEN "yes" ELSE intime
    /\ UNCHANGED <<timeout, op, bpc, wbuf, queue, bret, alive>>

\* the feeder thread pickles the message and writes it to the pipe; a message
\* that does not pickle is dropped, one larger than the pipe buffer is not
\* written out before the caller reads, which it does only after the join
WorkerFlush ==
    /\ UNCHANGED <<varsPredict, varsEval, varsDriver, varsRun, varsGroup, varsShard,
                   varsDiscover>>
    /\ wpc = "flushing" /\ wbuf # <<>> /\ Head(wbuf).kind # "large"
    /\ queue' = IF Head(wbuf).kind = "unpicklable"
                THEN queue
                ELSE Append(queue, [status |-> Head(wbuf).status,
                                    value |-> Head(wbuf).value])
    /\ wbuf' = Tail(wbuf)
    /\ UNCHANGED <<timeout, op, bpc, wpc, bret, intime, alive>>

\* the worker exits once the feeder thread has nothing left
WorkerExit ==
    /\ UNCHANGED <<varsPredict, varsEval, varsDriver, varsRun, varsGroup, varsShard,
                   varsDiscover>>
    /\ wpc = "flushing" /\ wbuf = <<>>
    /\ wpc' = "exited"
    /\ UNCHANGED <<timeout, op, bpc, wbuf, queue, bret, intime, alive>>

\* proc.join(timeout) returns because the worker has exited
JoinReturns ==
    /\ UNCHANGED <<varsPredict, varsEval, varsDriver, varsRun, varsGroup, varsShard,
                   varsDiscover>>
    /\ bpc = "join" /\ wpc = "exited"
    /\ bpc' = "check"
    /\ UNCHANGED <<timeout, op, wpc, wbuf, queue, bret, intime, alive>>

\* proc.join(timeout) returns because the timeout has expired
JoinTimeout ==
    /\ UNCHANGED <<varsPredict, varsEval, varsDriver, varsRun, varsGroup, varsShard,
                   varsDiscover>>
    /\ bpc = "join" /\ wpc # "exited"
    /\ bpc' = "check"
    /\ intime' = IF intime = "none" THEN "no" ELSE intime
    /\ UNCHANGED <<timeout, op, wpc, wbuf, queue, bret, alive>>

\* a mutant of BlockKill: the worker is left running
BlockKill_NoTerminate ==
    /\ UNCHANGED <<varsPredict, varsEval, varsDriver, varsRun, varsGroup, varsShard,
                   varsDiscover>>
    /\ bpc = "check" /\ wpc # "exited"
    /\ alive' = "true"
    /\ bret' = [how |-> "raise", val |-> "Timeout", bound |-> timeout]
    /\ bpc' = "done"
    /\ UNCHANGED <<timeout, op, wpc, wbuf, queue, intime>>

\* if proc.is_alive(): proc.terminate(); proc.join(); assert False, "Timeout..."
BlockKill ==
    /\ UNCHANGED <<varsPredict, varsEval, varsDriver, varsRun, varsGroup, varsShard,
                   varsDiscover>>
    /\ bpc = "check" /\ wpc # "exited"
    /\ alive' = "true"
    /\ wpc' = "killed"
    /\ bret' = [how |-> "raise", val |-> "Timeout", bound |-> timeout]
    /\ bpc' = "done"
    /\ UNCHANGED <<timeout, op, wbuf, queue, intime>>

\* what the caller makes of the queue: the message it gets, if there is one
\* (assert "error" not in obj, obj["error"]; return obj.get("result"))
BlockOutcome(q) ==
    IF q = <<>> THEN [how |-> "return", val |-> "None", bound |-> 0]
    ELSE IF Head(q).status = "error"
    THEN [how |-> "raise", val |-> Head(q).value, bound |-> 0]
    ELSE [how |-> "return", val |-> Head(q).value, bound |-> 0]

\* the worker is not alive: the queue is read and block returns or raises
BlockCollect ==
    /\ UNCHANGED <<varsPredict, varsEval, varsDriver, varsRun, varsGroup, varsShard,
                   varsDiscover>>
    /\ bpc = "check" /\ wpc = "exited"
    /\ alive' = "false"
    /\ bret' = BlockOutcome(queue)
    /\ queue' = IF queue = <<>> THEN queue ELSE Tail(queue)
    /\ bpc' = "done"
    /\ UNCHANGED <<timeout, op, wpc, wbuf, intime>>

----------------------------------------------------------------------------
(* Specifications *)

NextPredict ==
    \/ PredictStep \/ PredictStop \/ PredictError \/ PredictTimeout

NextEval ==
    \/ EvalLoop \/ EvalExit \/ StopReturn \/ StopDefer \/ EvalAgain

Next ==
    \/ GenCheck \/ GroupOpen \/ GroupOpenFail \/ GenYield \/ GroupClose
    \/ GroupCloseFail \/ GenStop \/ PlainNext \/ PlainStop
    \/ ScopeEnter \/ ScopeEnterFail \/ Ignore \/ Invoke \/ ScopeExit \/ ScopeExitFail

Spec == Init /\ [][Next]_vars

SpecPredict == InitPredict /\ [][NextPredict]_vars

\* predict runs in one thread and every call of _step returns or raises: the
\* while loop is never left standing at an iteration it can take
SpecPredictLive == InitPredict /\ [][NextPredict]_vars /\ WF_vars(NextPredict)

SpecEval == InitEval /\ [][NextEval]_vars

NextRun ==
    \/ RunEnter \/ RunEnterFail \/ InitReset \/ InitResetFail \/ InitEntryOk
    \/ InitEntryFail \/ InitSucceed \/ InitExhausted \/ RunPredict
    \/ RunPredictFail \/ RunEval \/ RunCount

SpecRun == InitRun /\ [][NextRun]_vars

NextGroup ==
    \/ Partition \/ PartitionSorted

SpecGroup == InitGroup /\ [][NextGroup]_vars

NextShard ==
    \/ ShardSelect

SpecShard == InitShard /\ [][NextShard]_vars

NextDiscover ==
    \/ Discover

SpecDiscover == InitDiscover /\ [][NextDiscover]_vars

NextBlock ==
    \/ WorkerResult \/ WorkerError \/ WorkerDies \/ WorkerFlush \/ WorkerExit
    \/ JoinReturns \/ JoinTimeout \/ BlockKill \/ BlockCollect

SpecBlock == InitBlock /\ [][NextBlock]_vars

----------------------------------------------------------------------------
(* Properties of Tester.__call__, checked under Spec *)

Total(c) == c.passed + c.failed + c.skipped + c.ignored
CounterFields == {"passed", "failed", "skipped", "ignored"}

\* C1: while Tester.__call__ iterates the plan no counter ever decreases, one
\* counter is incremented per processed task, so the four counters add up to
\* the number of tasks processed at every point, and to the number of tasks of
\* the plan when the call returns.
C1_CounterAccounting ==
    /\ [](/\ \A f \in CounterFields : counter[f] >= 0
          /\ dpc \in {"iter", "leave", "done"} => Total(counter) = pos
          /\ dpc \in {"scope", "body"} => Total(counter) = pos - 1
          /\ dpc = "raised" => Total(counter) \in {pos - 1, pos}
          /\ dpc = "done" => Total(counter) = Len(task_info))
    /\ [][/\ \A f \in CounterFields : counter'[f] >= counter[f]
          /\ counter' # counter =>
                /\ dpc = "body" /\ dpc' = "leave"
                /\ \E f \in CounterFields : counter' = [counter EXCEPT ![f] = @ + 1]]_vars

C1_Witness ==
    /\ dpc = "done"
    /\ counter = [passed |-> 1, failed |-> 0, skipped |-> 1, ignored |-> 1]

\* C2: when the invocation of a task raises, only `skipped` is incremented for
\* it and the loop goes on to the next task; a later task is counted by its
\* own verdict, whatever was counted before; the call returns only when every
\* task of the plan was taken.
C2_FailureIsolation ==
    /\ [][(dpc = "body" /\ ~result_exist /\ dpc' # dpc) =>
             /\ dpc' = "leave" /\ pos' = pos
             /\ tres' = "raise" => counter' = [counter EXCEPT !.skipped = @ + 1]
             /\ tres' = "true" => counter' = [counter EXCEPT !.passed = @ + 1]
             /\ tres' = "false" => counter' = [counter EXCEPT !.failed = @ + 1]]_vars
    /\ [](dpc = "done" => pos = Len(task_info))

C2_Witness ==
    /\ dpc = "leave" /\ ~result_exist /\ tres = "true"
    /\ counter.skipped = 1 /\ counter.passed = 1

\* C3: no error leaves Tester.__call__: a failure of opening or closing a
\* group's session, of the group check, or of the result-record scope is
\* contained and the call returns normally.
C3_NoErrorEscapes ==
    dpc # "raised"

----------------------------------------------------------------------------
(* Properties of Task.eval, checked under SpecEval *)

IsStopRule(r) == r.type = EARLY_STOP
IsDomainRule(r) == r.type # EARLY_STOP
OnlyStopRules(ev) == \A i \in 1..Len(ev) : IsStopRule(ev[i])

\* an early-stop rule agrees with the stop signal (kind, args)
RuleMatches(r, kind, args) == r.value = kind /\ (r.value = ANS => r.args = args)

AnsRule(a) == [type |-> EARLY_STOP, value |-> ANS, args |-> a]

\* C4: for an evaluate list of early-stop rules only, the verdict is true iff
\* every rule's kind equals the signal's kind and every ANS rule's arguments
\* equal the signal's arguments; ANS["42"] gives true for (ANS, ["42"]) and
\* false for (ANS, ["7"]) and for (TIMEOUT, []).
C4_EarlyStopVerdict ==
    (epc = "done" /\ OnlyStopRules(evaluate0)) =>
        /\ via = "generic"
        /\ verdict \in {"true", "false"}
        /\ verdict = "true" <=>
              \A i \in 1..Len(evaluate0) : RuleMatches(evaluate0[i], stop_type, stop_args)
        /\ evaluate0 = <<AnsRule(<<"42">>)>> =>
              /\ (stop_type = ANS /\ stop_args = <<"42">>) => verdict = "true"
              /\ (stop_type = ANS /\ stop_args = <<"7">>) => verdict = "false"
              /\ (stop_type = TIMEOUT /\ stop_args = <<>>) => verdict = "false"

C4_Witness ==
    /\ epc = "done" /\ evaluate0 = <<AnsRule(<<"42">>)>>
    /\ stop_type = ANS /\ stop_args = <<"7">> /\ verdict = "false"

\* C5 as the specification states it: once the scan reaches a domain rule
\* (every early-stop rule before it having matched) the generic scan stops and
\* the specialized evaluator's result is the verdict, the early-stop rules
\* after that domain rule being left unchecked.
ReachesDomainRule(ev, kind, args) ==
    \E p \in 1..Len(ev) :
        /\ IsDomainRule(ev[p])
        /\ \A q \in 1..(p - 1) : IsStopRule(ev[q]) => RuleMatches(ev[q], kind, args)

C5_Original ==
    (epc = "done" /\ ReachesDomainRule(evaluate0, stop_type, stop_args)) =>
        /\ via = "specialized"
        /\ verdict = Specialized(evaluate0, satisfied)

\* C5 amended: the scan skips a domain rule and goes on to the end of the list;
\* every early-stop rule, before or after a domain rule, is checked and a
\* mismatch gives false without the specialized evaluator; the specialized
\* evaluator is called only when the whole list was scanned without a mismatch
\* and a domain rule is left, and its result is the verdict.
AllStopRulesMatch(ev, kind, args) ==
    \A i \in 1..Len(ev) : IsStopRule(ev[i]) => RuleMatches(ev[i], kind, args)
HasDomainRule(ev) == \E i \in 1..Len(ev) : IsDomainRule(ev[i])

C5_DeferAfterFullScan ==
    /\ epc = "deferred" => eval_index = Len(evaluate)
    /\ epc = "done" =>
          /\ via = "specialized" <=>
                /\ AllStopRulesMatch(evaluate0, stop_type, stop_args)
                /\ HasDomainRule(evaluate0)
          /\ via = "specialized" => verdict = Specialized(evaluate, satisfied)
          /\ ~AllStopRulesMatch(evaluate0, stop_type, stop_args) =>
                via = "generic" /\ verdict = "false"

C5_Witness ==
    /\ epc = "done" /\ via = "generic" /\ verdict = "false"
    /\ Len(evaluate0) = 2 /\ IsDomainRule(evaluate0[1]) /\ IsStopRule(evaluate0[2])

\* the verdict of the wrapped eval for a list, a signal and a specialized evaluator
Verdict(ev, kind, args, sat) ==
    LET r == TaskEval(ev, 0, kind, args)
    IN  IF r.outcome = "deferred" THEN Specialized(r.evaluate, sat) ELSE r.outcome

\* what the specialized evaluator is handed, <<>> when it is not called
Handed(ev, kind, args) ==
    LET r == TaskEval(ev, 0, kind, args)
    IN  IF r.outcome = "deferred" THEN r.evaluate ELSE <<>>

\* l2 holds the rules of l1, the domain rules in the same order: the lists differ
\* only in where the early-stop rules stand
Reorderings(l1) ==
    {l2 \in {[i \in 1..Len(l1) |-> l1[f[i]]] : f \in Permutations(1..Len(l1))} :
        SelectSeq(l2, IsDomainRule) = SelectSeq(l1, IsDomainRule)}

\* C6 as the specification states it: some two lists that differ only in the
\* position of early-stop rules relative to domain rules get different
\* verdicts for one stop signal and one specialized evaluator.
C6_Original ==
    \E l1 \in RuleLists \cup {evaluate0} : \E l2 \in Reorderings(l1) :
        \E s \in Signals \cup {<<stop_type, stop_args>>} :
            \E sat \in SUBSET DomainNames :
                Verdict(l1, s[1], s[2], sat) # Verdict(l2, s[1], s[2], sat)

\* C6 amended: the verdict does not depend on where the early-stop rules stand
\* among the domain rules: every reordering of the evaluated list that keeps
\* the domain rules in order gets the same verdict, and the specialized
\* evaluator is handed the same list.
C6_OrderInsensitive ==
    epc = "done" =>
        \A l2 \in Reorderings(evaluate0) :
            /\ Verdict(l2, stop_type, stop_args, satisfied) = verdict
            /\ (via = "specialized") => Handed(l2, stop_type, stop_args) = evaluate
            /\ (via = "generic") => Handed(l2, stop_type, stop_args) = <<>>

C6_Witness ==
    /\ epc = "done" /\ verdict = "false" /\ satisfied = DomainNames
    /\ Len(evaluate0) = 2 /\ IsStopRule(evaluate0[1]) /\ IsDomainRule(evaluate0[2])
    /\ Cardinality(Reorderings(evaluate0)) = 2

----------------------------------------------------------------------------
(* Properties of Task.predict, checked under SpecPredict *)

Threshold == penalty[1]
Reduction == penalty[2]

\* every step so far was liquid
AllLiquid == consec = step_index

\* C7: with penalty (T, R), T >= 1, and every step liquid, the budget is
\* reduced by exactly R right after each T-th step and the tally is 0 right
\* after each reduction; for steps = 10, penalty = (3, 2) the budget is 8 after
\* step 3 and 6 after step 6 and predict ends at index 6 with (TIMEOUT, []).
C7_AllLiquidSchedule ==
    (AllLiquid /\ Threshold >= 1) =>
        /\ steps = steps0 - Reduction * (step_index \div Threshold)
        /\ liquid = step_index % Threshold
        /\ (step_index > 0 /\ step_index % Threshold = 0) => (penalized /\ liquid = 0)
        /\ (steps0 = 10 /\ penalty = <<3, 2>>) =>
              /\ step_index = 3 => steps = 8
              /\ step_index = 6 => steps = 6
              /\ (ppc = "returned" /\ ~emitted) =>
                    step_index = 6 /\ ret = <<TIMEOUT, <<>>>>

C7_Witness ==
    /\ steps0 = 10 /\ penalty = <<3, 2>> /\ AllLiquid
    /\ ppc = "returned" /\ ~emitted /\ step_index = 6 /\ steps = 6

\* C8: the budget is reduced at a step only if that step and the T-1 steps
\* immediately before it were all liquid (a non-liquid step resets the tally).
C8_ConsecutiveOnly ==
    (penalized /\ Reduction > 0) => consec >= Threshold

\* C9 as the specification states it: after a penalty reduction the budget is
\* never smaller than the number of steps already executed.
C9_Original ==
    penalized => steps >= step_index

\* C9 amended: a penalty reduction subtracts exactly R from the budget, with no
\* floor (the budget may fall below the number of steps executed, and below
\* zero); a step is executed only while step_index < steps.
C9_NoFloor ==
    [][step_index' # step_index =>
          /\ step_index < steps
          /\ step_index' = step_index + 1
          /\ steps' = IF penalized' THEN steps - Reduction ELSE steps]_vars

C9_Witness ==
    penalized /\ steps < 0 /\ step_index > 0

\* the first code of a response that raises
FirstRaise(codes) ==
    CHOOSE i \in 1..Len(codes) :
        /\ codes[i].out \in {"Stop", "Error"}
        /\ \A j \in 1..(i - 1) : codes[j].out \notin {"Stop", "Error"}

\* C10: a stop signal emitted by a code action ends predict at once: no later
\* code action of that step and no later step is executed, the step is not
\* counted and no penalty is applied for it, and exactly that signal is
\* returned; without an emitted signal the result is (TIMEOUT, []), returned
\* only once step_index >= steps; predict returns once.
C10_OneStopSignal ==
    /\ [][(ppc = "loop" /\ emitted') =>
             /\ ppc' = "returned"
             /\ lastCodes'[FirstRaise(lastCodes')].out = "Stop"
             /\ lastExec' = FirstRaise(lastCodes')
             /\ ret' = lastCodes'[lastExec'].sig
             /\ step_index' = step_index /\ steps' = steps /\ liquid' = liquid]_vars
    /\ [][ppc # "loop" => UNCHANGED varsPredict]_vars
    /\ []((ppc = "returned" /\ ~emitted) =>
             (ret = <<TIMEOUT, <<>>>> /\ step_index >= steps))
    /\ [](ppc = "returned" <=> ret # NoSignal)

C10_Witness ==
    /\ ppc = "returned" /\ emitted /\ lastExec < Len(lastCodes)
    /\ ret = <<ANS, <<"42">>>> /\ step_index > 0

----------------------------------------------------------------------------
(* Properties of TaskGroup.__init__, checked under SpecGroup *)

RECURSIVE Flatten(_)
Flatten(gs) == IF gs = <<>> THEN <<>> ELSE Head(gs) \o Flatten(Tail(gs))

\* C14: whatever list the constructor is given, its groups are non-empty and
\* their concatenation, in order, is the list itself: every group is a run of
\* neighbours of the input, no item is lost, doubled or moved.
C14_PartitionIsInput ==
    tgpc = "built" =>
        /\ \A g \in 1..Len(groups) : Len(groups[g]) > 0
        /\ Flatten(groups) = RawOrder(task_info)

\* C14: a list of three items that is cut into more than one group, one of
\* them with more than one member
C14_Witness ==
    /\ tgpc = "built" /\ Len(task_info) = 3 /\ Len(groups) = 2
    /\ Len(groups[1]) = 2

\* the descriptor the spec describes: the pair of sort and type
SameKey(a, b) == a.sort = b.sort /\ a.type = b.type

\* the group that holds item k
GroupOf(gs, k) ==
    CHOOSE g \in 1..Len(gs) : \E j \in 1..Len(gs[g]) : gs[g][j] = k

\* C15 as stated: the members of a group agree on sort and on type, and a
\* group is started whenever the sort or the type differs from the item before.
C15_Original ==
    tgpc = "built" =>
        /\ \A g \in 1..Len(groups) : \A j, k \in 1..Len(groups[g]) :
              SameKey(task_info[groups[g][j]], task_info[groups[g][k]])
        /\ \A k \in 2..Len(task_info) :
              ~SameKey(task_info[k - 1], task_info[k])
                  => GroupOf(groups, k) # GroupOf(groups, k - 1)

\* what TypeSort.__eq__ compares: Raw descriptors by sort and type, VM
\* descriptors by sort alone
SameDescriptor(a, b) ==
    /\ a.sort = b.sort
    /\ a.sort = "Raw" => a.type = b.type

\* C15, amended: the members of a group agree on the descriptor as the code
\* compares it (Raw: sort and type; VM: the sort alone, the type may differ),
\* and a group is started whenever that descriptor differs from the item before.
C15_GroupDescriptor ==
    tgpc = "built" =>
        /\ \A g \in 1..Len(groups) : \A j, k \in 1..Len(groups[g]) :
              SameDescriptor(task_info[groups[g][j]], task_info[groups[g][k]])
        /\ \A k \in 2..Len(task_info) :
              ~SameDescriptor(task_info[k - 1], task_info[k])
                  => GroupOf(groups, k) # GroupOf(groups, k - 1)

\* C15: two VM tasks of different types share a group, and a Raw task of
\* another type starts a group of its own
C15_Witness ==
    /\ tgpc = "built" /\ Len(task_info) = 3 /\ Len(groups) = 2
    /\ task_info[1].sort = "VM" /\ task_info[2].sort = "VM"
    /\ task_info[1].type # task_info[2].type
    /\ groups[1] = <<1, 2>>
    /\ task_info[3].sort = "Raw"

----------------------------------------------------------------------------
(* Properties of the shard slice, checked under SpecShard *)

\* the slices of the shards 0..s-1 over n entries follow one another and
\* cover 0..n-1: the first starts at 0, each ends where the next starts, the
\* last ends at n
ShardsCover(n, s) ==
    /\ Shard(n, s, 0).start = 0
    /\ Shard(n, s, s - 1).end = n
    /\ \A i \in 0..(s - 1) : Shard(n, s, i).start <= Shard(n, s, i).end
    /\ \A i \in 0..(s - 2) : Shard(n, s, i).end = Shard(n, s, i + 1).start

\* C20: for every number of entries N, shard count S >= 1 and shard I of
\* 0..S-1, the slices are contiguous, disjoint, increasing in I and cover
\* exactly 0..N-1; with N = 10 and S = 3 they are [0,4), [4,7), [7,10).
C20_ShardsPartition ==
    /\ ShardsCover(total_files, SPLITE)
    /\ spc = "sliced" =>
          /\ 0 <= start /\ start <= end /\ end <= total_files
          /\ INDEX = 0 => start = 0
          /\ INDEX = SPLITE - 1 => end = total_files
          /\ INDEX < SPLITE - 1 => end = Shard(total_files, SPLITE, INDEX + 1).start
          /\ Len(selected_pth) = end - start
          /\ \A k \in 1..Len(selected_pth) : selected_pth[k] = start + k - 1
          /\ (total_files = 10 /\ SPLITE = 3) =>
                <<start, end>> = CASE INDEX = 0 -> <<0, 4>>
                                   [] INDEX = 1 -> <<4, 7>>
                                   [] INDEX = 2 -> <<7, 10>>

\* C20: the middle shard of three over ten entries has been cut
C20_Witness ==
    /\ spc = "sliced" /\ total_files = 10 /\ SPLITE = 3 /\ INDEX = 1
    /\ selected_pth = <<4, 5, 6>>

----------------------------------------------------------------------------
(* Properties of TaskGroup.__call__ within Tester.__call__, checked under Spec *)

\* group g is one the generator has to open a session for
NeedsSession(g) ==
    \/ ~ignore
    \/ \E k \in 1..Len(groups[g]) : ~task_info[groups[g][k]].fin

\* the manager of the first member of group g
FirstManager(g) == ManagerOf(task_info[groups[g][1]])

\* C16: for a group with an unfinished member, or with resumption-skip off,
\* the generator enters the session of the group's first member once, before
\* the first member is yielded, keeps it open while the members are yielded and
\* processed, whether they pass, fail or raise, and exits it once, after the
\* last member has been processed; a run that returns has closed every group.
C16_SessionOncePerGroup ==
    /\ [][/\ (optimize /\ gpc = "group" /\ gpc' = "member" /\ NeedsSession(gi))
               => /\ ~gopen /\ gopen' /\ mi' = 1 /\ pos' = pos
                  /\ entered' = Manager_enter(entered, FirstManager(gi))
          /\ (~gopen /\ gopen') => (gpc = "group" /\ gpc' = "member" /\ mi' = 1)
          /\ (gopen /\ gopen') => gi' = gi
          /\ (optimize /\ pos' = pos + 1 /\ NeedsSession(gi)) => (gopen /\ gopen')
          /\ (dpc = "body" /\ dpc' = "leave") => gopen' = gopen
          /\ (gopen /\ ~gopen')
               => /\ dpc = "iter" /\ mi = Len(groups[gi]) + 1 /\ gi' = gi + 1
                  /\ entered' = Manager_exit(entered, FirstManager(gi))
         ]_vars
    /\ []((dpc = "done" /\ optimize) => (~gopen /\ gi = Len(groups) + 1))

\* C16: a run that has returned after a group of three in which one member
\* raised and the two others passed
C16_Witness ==
    /\ dpc = "done" /\ optimize /\ Len(groups) = 1 /\ Len(task_info) = 3
    /\ counter.skipped = 1 /\ counter.passed = 2 /\ tres = "true" /\ ~gopen

AllFinished(g) == \A k \in 1..Len(groups[g]) : task_info[groups[g][k]].fin

\* C17: while the generator is in a group whose members all have a completion
\* record, with resumption-skip on, no session is open; its members are yielded
\* in their order and each is counted ignored and nothing else; a run over
\* finished tasks only returns with every task ignored.
C17_FinishedGroupPassThrough ==
    /\ []((optimize /\ ignore /\ gpc = "member" /\ AllFinished(gi))
            => (~gopen /\ \A m \in Managers : ~entered[m]))
    /\ [][(optimize /\ ignore /\ gpc = "member" /\ AllFinished(gi))
            => /\ (dpc = "iter" /\ mi <= Len(groups[gi]))
                    => (dpc' = "raised" \/ (cur' = groups[gi][mi] /\ mi' = mi + 1))
               /\ (dpc = "body" /\ dpc' # dpc)
                    => counter' = [counter EXCEPT !.ignored = @ + 1]
         ]_vars
    /\ []((dpc = "done" /\ optimize /\ ignore
             /\ \A k \in 1..Len(task_info) : task_info[k].fin)
            => counter = [passed |-> 0, failed |-> 0, skipped |-> 0,
                          ignored |-> Len(task_info)])

\* C17: three finished tasks of one kind have been passed through
C17_Witness ==
    /\ dpc = "done" /\ optimize /\ ignore /\ Len(task_info) = 3 /\ Len(groups) = 1
    /\ \A k \in 1..3 : task_info[k].fin
    /\ counter.ignored = 3

----------------------------------------------------------------------------
(* Properties of Task.init and Task.__call__, checked under SpecRun *)

\* C11: Initialize makes at most CONFIG_RETRY = 5 attempts; an attempt begins
\* only when all attempts before it have failed, and one whose reset fails is
\* a failed attempt like any other; init returns True in the first attempt
\* whose reset and init items all succeed and begins no attempt after that;
\* it returns False only when all 5 attempts have failed, and when they have
\* it does not return True.
C11_InitAttempts ==
    /\ [](attempt <= CONFIG_RETRY /\ nfailed <= attempt)
    /\ [][attempt' # attempt
            => /\ attempt' = attempt + 1 /\ nfailed = attempt
               /\ init_ret = "none"
               /\ ~resetOk' => nfailed' = attempt']_vars
    /\ [](init_ret = "true"
            => /\ resetOk /\ ran = initialize
               /\ nfailed = attempt - 1 /\ attempt >= 1)
    /\ [][init_ret # "none" => attempt' = attempt]_vars
    /\ [](init_ret = "false" => (nfailed = CONFIG_RETRY /\ attempt = CONFIG_RETRY))
    /\ [](nfailed = CONFIG_RETRY => (init_ret = "false" \/ rpc = "init"))

\* C11: init has returned True in its third attempt, with two init items
C11_Witness ==
    /\ init_ret = "true" /\ attempt = 3 /\ nfailed = 2 /\ Len(initialize) = 2

C13_InitFailureSkips ==
    /\ [](init_ret = "false"
            => /\ did = {} /\ tres = "raise"
               /\ rpc \in {"raised", "counted"})
    /\ []((init_ret = "false" /\ rpc = "counted")
            => counter = [passed |-> 0, failed |-> 0, skipped |-> 1, ignored |-> 0])

\* C13: the Driver has counted a task whose five attempts all failed
C13_Witness ==
    /\ init_ret = "false" /\ rpc = "counted" /\ nfailed = CONFIG_RETRY
    /\ counter.skipped = 1 /\ did = {}

\* C18: at every point at most one manager is entered.
C18_OneSession ==
    Cardinality({x \in Managers : entered[x]}) <= 1

\* C19: when Task.__call__ has returned or raised, the manager of the task is
\* entered if and only if it was when the call began.
C19_SessionAsFound ==
    rpc \in {"returned", "raised", "counted"} => entered[RunManager] = entered0

\* C21: shard I of S over N entries has ceil(N/S) entries when I < N mod S
\* and floor(N/S) otherwise; any two shards differ by at most one entry and a
\* shard is never smaller than one with a larger index.
C21_ShardBalance ==
    LET size(i) == Shard(total_files, SPLITE, i).end - Shard(total_files, SPLITE, i).start
        floor == total_files \div SPLITE
        ceil == (total_files + SPLITE - 1) \div SPLITE
    IN  /\ \A i \in 0..(SPLITE - 1) :
              size(i) = IF i < total_files % SPLITE THEN ceil ELSE floor
        /\ \A i, j \in 0..(SPLITE - 1) :
              /\ size(i) - size(j) <= 1
              /\ i < j => size(i) >= size(j)
        /\ spc = "sliced" =>
              Len(selected_pth) = IF INDEX < total_files % SPLITE THEN ceil ELSE floor

\* C21: of three shards over ten entries the first has been cut with four
\* entries, and one of four shards over ten entries with two
C21_Witness ==
    /\ spc = "sliced"
    /\ \/ (total_files = 10 /\ SPLITE = 3 /\ INDEX = 0 /\ Len(selected_pth) = 4)
       \/ (total_files = 10 /\ SPLITE = 4 /\ INDEX = 3 /\ Len(selected_pth) = 2)

----------------------------------------------------------------------------
(* Properties of Tester.__traverse, checked under SpecDiscover *)

\* the definition files of a tree that load and are not excluded as finished,
\* at any depth, as [infix, name]
RECURSIVE Leaves(_, _, _)
Leaves(dir, infix, fin) ==
    UNION {IF dir[n].kind = "file"
           THEN (IF dir[n].ok /\ n \notin fin
                 THEN {[infix |-> infix, name |-> n]} ELSE {})
           ELSE (IF n \notin fin THEN Leaves(dir[n].sub, infix \o n, fin) ELSE {})
           : n \in DOMAIN dir}

\* what the process with shard index i discovers in the tree
FoundBy(i) ==
    LET r == Traverse(tree, <<>>, finished, i, SPLITE, NoneFound)
    IN  {r.task_info[k] : k \in 1..Len(r.task_info)}

\* C22: every definition file of the tree, at any depth, that loads and is not
\* excluded as finished is discovered by exactly one of the SPLITE processes.
C22_TreeCoverage ==
    xpc = "discovered" =>
        \A leaf \in Leaves(tree, <<>>, finished) :
            Cardinality({i \in 0..(SPLITE - 1) : leaf \in FoundBy(i)}) = 1

\* C25: no two discovered tasks have the same identifier.
C25_UniqueIdent ==
    xpc = "discovered" =>
        \A j, k \in 1..Len(discovered) :
            j # k => ident(discovered[j]) # ident(discovered[k])

\* the files this process selects, at any depth, whose load succeeds (ok) or
\* fails (~ok): the slice of every directory it walks into
RECURSIVE SelectedFiles(_, _, _)
SelectedFiles(dir, infix, ok) ==
    LET sel == Selected(Listing(dir, finished), INDEX, SPLITE)
    IN  UNION {IF dir[sel[k]].kind = "file"
               THEN (IF dir[sel[k]].ok = ok
                     THEN {[infix |-> infix, name |-> sel[k]]} ELSE {})
               ELSE SelectedFiles(dir[sel[k]].sub, infix \o sel[k], ok)
               : k \in 1..Len(sel)}

\* C26: a selected definition file whose load fails is left out of the plan
\* and logged, no error leaves the discovery, and every selected file whose
\* load succeeds is in the plan, once, whether it is listed before or after
\* a failing one.
C26_DiscoveryContainment ==
    xpc = "discovered" =>
        /\ ~escaped
        /\ {discovered[k] : k \in 1..Len(discovered)} = SelectedFiles(tree, <<>>, TRUE)
        /\ Len(discovered) = Cardinality(SelectedFiles(tree, <<>>, TRUE))
        /\ {errors[k] : k \in 1..Len(errors)} = SelectedFiles(tree, <<>>, FALSE)

\* C26: of three files of one directory the middle one failed to load and the
\* ones before and after it are in the plan
C26_Witness ==
    /\ xpc = "discovered" /\ SPLITE = 1 /\ finished = {}
    /\ discovered = <<[infix |-> <<>>, name |-> <<"a", "json">>],
                      [infix |-> <<>>, name |-> <<"b", "json">>]>>
    /\ errors = <<[infix |-> <<>>, name |-> <<"a", "v2", "json">>]>>

----------------------------------------------------------------------------
(* Properties of block, checked under SpecBlock *)

\* C23: when func ended within the timeout and block found the worker gone,
\* block returns the value func returned, whatever value it is, and when func
\* failed block raises an error that carries the failure and returns nothing.
C23_CompletionOutcome ==
    (bpc = "done" /\ intime = "yes" /\ alive = "false") =>
        /\ op.kind \in Returning
              => bret = [how |-> "return", val |-> op.val, bound |-> 0]
        /\ op.kind \in {"error", "exit"}
              => (bret.how = "raise" /\ bret.val = op.val)

\* the Timeout failure of block, carrying the bound
TimeoutError == [how |-> "raise", val |-> "Timeout", bound |-> timeout]

\* C24 as stated: when func had not ended at the moment the timeout expired,
\* block fails with Timeout, returns nothing and has killed the worker.
C24_Original ==
    (bpc = "done" /\ intime = "no") => (bret = TimeoutError /\ wpc = "killed")

\* C24, amended: when the worker is still alive at the check that follows the
\* timed join, it is terminated and joined, block fails with the Timeout error
\* that carries the bound and no message of the queue is read; block fails
\* with Timeout in no other case; an operation that never ends always ends so;
\* whatever the outcome, the worker is not alive when it reaches the caller.
C24_TimeoutKills ==
    /\ (bpc = "done" /\ alive = "true")
          => (bret = TimeoutError /\ wpc = "killed")
    /\ (bret.val = "Timeout") => (bret = TimeoutError /\ alive = "true")
    /\ (bpc = "done" /\ op.kind = "hang") => bret = TimeoutError
    /\ bpc = "done" => wpc \in {"exited", "killed"}
    /\ bpc # "done" => bret = NoReturn

\* C24: an operation that never ends has been cut off
C24_Witness ==
    /\ bpc = "done" /\ op.kind = "hang" /\ intime = "no" /\ alive = "true"
    /\ bret = TimeoutError /\ wpc = "killed" /\ timeout = 2


----------------------------------------------------------------------------
(* More properties of Task.eval, checked under SpecEval *)

DomainPart(ev) == SelectSeq(ev, IsDomainRule)

\* C27: the generic scan never removes a domain rule: at every point of the
\* scan the domain rules of self.evaluate are those of the list the evaluation
\* started with, in their order; when no early-stop rule mismatches the stop
\* signal and a domain rule exists, the outcome is a deferral and the list the
\* specialized evaluator is handed is exactly the domain rules, in their
\* original relative order, every early-stop rule removed.
C27_DomainRulesKept ==
    /\ DomainPart(evaluate) = DomainPart(evaluate0)
    /\ (epc \in {"deferred", "true", "done"}
          /\ AllStopRulesMatch(evaluate0, stop_type, stop_args)
          /\ HasDomainRule(evaluate0)) =>
            /\ epc # "true"
            /\ epc = "done" => via = "specialized"
            /\ evaluate = DomainPart(evaluate0)

C27_Witness ==
    /\ epc = "done" /\ via = "specialized"
    /\ Len(evaluate0) = 3 /\ Len(evaluate) = 1
    /\ IsStopRule(evaluate0[1]) /\ IsDomainRule(evaluate0[2]) /\ IsStopRule(evaluate0[3])
    /\ evaluate = <<evaluate0[2]>>

\* the call before this one returned True from the generic scan
PrevAllMatched == prev.verdict = "true" /\ prev.via = "generic"

\* C28: evaluation consumes the Task's own rule list: when an evaluation has
\* matched and removed every rule and returned true, the list is empty, and a
\* later evaluation of the same Task returns true for every stop signal,
\* (TIMEOUT, []) included.
C28_ConsumedListPasses ==
    /\ (epc = "done" /\ via = "generic" /\ verdict = "true") => evaluate = <<>>
    /\ PrevAllMatched =>
          /\ evaluate0 = <<>> /\ evaluate = <<>>
          /\ epc \in {"scan", "true", "done"}
          /\ epc = "done" => (verdict = "true" /\ via = "generic")

C28_Witness ==
    /\ PrevAllMatched /\ prev.evaluate = <<AnsRule(<<"42">>)>>
    /\ prev.stop_type = ANS /\ prev.stop_args = <<"42">>
    /\ epc = "done" /\ stop_type = TIMEOUT /\ stop_args = <<>>
    /\ verdict = "true" /\ nevals = 2

\* C29: within one attempt of init the init items are invoked in the order of
\* self.initialize, and the first item that raises or returns a false value
\* ends the attempt: no later item of that attempt is invoked, the failure
\* leaves control in the retry loop of init, and an error raised by the item
\* does not leave init: nothing but the exhausted retry loop makes
\* Task.__call__ raise.
C29_FirstFailureEndsAttempt ==
    /\ [][ran' # ran /\ ran' # <<>>
            => /\ nfailed = attempt - 1 /\ rpc = "entries"
               /\ Len(ran') = Len(ran) + 1
               /\ \A k \in 1..Len(ran') : ran'[k] = initialize[k]]_vars
    /\ [][(rpc = "entries" /\ nfailed' # nfailed)
            => /\ failure' \in {"raise", "false"}
               /\ rpc' = "init" /\ nfailed' = attempt /\ attempt' = attempt
               /\ init_ret' = "none" /\ tres' = "none"
               /\ ran' = SubSeq(initialize, 1, Len(ran) + 1)]_vars
    /\ []((rpc = "init" /\ failure # "none" /\ nfailed = attempt /\ resetOk)
            => Len(ran) <= Len(initialize))
    /\ []((rpc = "raised" /\ failure # "none" /\ did = {}) => init_ret = "false")

\* C29: the first of two init items raised in the second attempt: the second
\* item was not invoked and init is back in its retry loop
C29_Witness ==
    /\ attempt = 2 /\ nfailed = 2 /\ rpc = "init" /\ failure = "raise"
    /\ Len(initialize) = 2 /\ initialize[1] # initialize[2]
    /\ ran = <<initialize[1]>> /\ init_ret = "none" /\ tres = "none"

----------------------------------------------------------------------------
(* The Driver and a task whose completion record exists, checked under Spec *)

\* the Driver is handling a task whose record exists, with ignore on
HandlingFinished ==
    /\ dpc \in {"scope", "body", "leave"}
    /\ ignore /\ task_info[cur].fin

\* C30: a task whose completion record exists is never invoked when ignore is
\* on: the record is found in the result-record scope, and from the point the
\* Driver takes the task to the point it goes on to the next one no step
\* gives a task result, enters, resets or leaves a session, or touches the
\* step budget or the evaluate list; the only count is one "ignored".  This
\* holds as well for a member of a group whose session is open for an
\* unfinished member.
C30_FinishedTaskNotInvoked ==
    /\ []((HandlingFinished /\ dpc # "scope") => result_exist)
    /\ [][HandlingFinished
            => /\ tres' = tres /\ entered' = entered /\ gopen' = gopen
               /\ steps' = steps /\ evaluate' = evaluate
               /\ rpc' = "idle" /\ did' = {}
               /\ counter' = IF dpc = "body" THEN Counter_ignore(counter)
                                             ELSE counter
               /\ counter'.ignored <= counter.ignored + 1
               /\ \A f \in {"passed", "failed", "skipped"} :
                     counter'[f] = counter[f]]_vars

\* C30: a finished task has been counted ignored inside the open session of
\* its group, which has an unfinished member
C30_Witness ==
    /\ dpc = "leave" /\ optimize /\ ignore /\ gopen /\ gpc = "member"
    /\ task_info[cur].fin /\ result_exist
    /\ entered[ManagerOf(task_info[cur])]
    /\ \E k \in 1..Len(groups[gi]) : ~task_info[groups[gi][k]].fin
    /\ counter = [passed |-> 0, failed |-> 0, skipped |-> 0, ignored |-> 1]

----------------------------------------------------------------------------
(* The plan of Tester.__init__, checked under SpecGroup *)

\* the plan as one list of indices into task_info
PlanOrder == Flatten(groups)

\* the rank of a (sort, type) key: Raw before VM, then type "a" before "b"
KeyRank(t) == (IF t.sort = "Raw" THEN 0 ELSE 2) + (IF t.type = "a" THEN 0 ELSE 1)

\* C31: in the plan built from sorted(self.task_info) the tasks stand by sort
\* first (Raw before VM) and by type second, every discovered task once; all
\* tasks of one (sort, type) key are in one single group, and no member of a
\* group has the key of a member of the group next to it.
C31_PlanGroupsMaximal ==
    tgpc = "planned" =>
        /\ Len(PlanOrder) = Len(task_info)
        /\ {PlanOrder[p] : p \in 1..Len(PlanOrder)} = 1..Len(task_info)
        /\ \A p \in 2..Len(PlanOrder) :
              KeyRank(task_info[PlanOrder[p - 1]]) <= KeyRank(task_info[PlanOrder[p]])
        /\ \A j, k \in 1..Len(task_info) :
              SameKey(task_info[j], task_info[k])
                  => GroupOf(groups, j) = GroupOf(groups, k)
        /\ \A g \in 2..Len(groups) :
              \A j \in 1..Len(groups[g - 1]) : \A k \in 1..Len(groups[g]) :
                  ~SameKey(task_info[groups[g - 1][j]], task_info[groups[g][k]])

\* C31: three tasks found in the order Raw b, VM a, Raw a are planned as the
\* groups Raw a, Raw b and VM
C31_Witness ==
    /\ tgpc = "planned" /\ Len(task_info) = 3
    /\ task_info[1].sort = "Raw" /\ task_info[1].type = "b"
    /\ task_info[2].sort = "VM"
    /\ task_info[3].sort = "Raw" /\ task_info[3].type = "a"
    /\ groups = <<<<3>>, <<1>>, <<2>>>>

----------------------------------------------------------------------------
(* Termination of Task.predict, checked under SpecPredictLive *)

\* the steps predict has begun: those that returned and the one that raised
StepsExecuted ==
    step_index + (IF emitted \/ ppc = "raised" THEN 1 ELSE 0)

----------------------------------------------------------------------------
(* The session during Task.predict, checked under SpecRun *)

\* C33: predict is stepping only inside the open session of the task and only
\* after an attempt of init of the same call succeeded: whenever __call is at
\* self.predict(), the task's manager is entered, init returned True, and in
\* its last attempt the reset succeeded and every init item was invoked and
\* succeeded; predict is never begun otherwise.
C33_StepInOpenSession ==
    /\ rpc = "predict" =>
          /\ entered[RunManager]
          /\ init_ret = "true"
          /\ resetOk /\ ran = initialize /\ entry = Len(initialize)
          /\ attempt \in 1..CONFIG_RETRY /\ nfailed = attempt - 1
    /\ "predict" \in did => init_ret = "true"
    /\ init_ret = "false" => rpc \notin {"predict", "eval", "returned"}

\* C33: predict is reached in the third attempt of a call that found the
\* session of its group open, after two init items
C33_Witness ==
    /\ rpc = "predict" /\ attempt = 3 /\ nfailed = 2 /\ ~own
    /\ entered[RunManager] /\ Len(initialize) = 2 /\ ran = initialize
    /\ failure # "none"

====
